---- MODULE Spec2Model ----
(***************************************************************************)
(* GdeDoctorBot: the doctor search and the reviews of the Telegram bot.    *)
(*                                                                         *)
(* Spec is a session of /start and the AI search, run against every text   *)
(* and oracle answer of the model.  SpecSession is a session of every      *)
(* search handler, manual and AI, run against a few of them.  SpecManual   *)
(* is a session of a bot without the AI router, reviews included.          *)
(* SpecFilter, SpecExtract and SpecLocation apply one function of the AI   *)
(* assistant on its own.                                                   *)
(*                                                                         *)
(* Texts are sequences of characters.  A Cyrillic letter is written as its *)
(* Latin transliteration ("ts" is the one letter U+0446), a capital letter *)
(* as the upper-case transliteration, and a Latin letter x as "lat_x", so  *)
(* that str.lower() and the substring test `a in b` are computed on the    *)
(* characters as Python computes them.                                     *)
(***************************************************************************)
EXTENDS Integers, Sequences, FiniteSets, TLC

(* ------------------------------ bounds --------------------------------- *)

MaxHosp == 2

MaxReplyLen == 3

LongExtra == 1

MaxCatalog == 3

MaxHistory == 2

\* longest conversation_history of a session that only converses
MaxChat == 8

\* updates the user has sent that the bot has not fetched yet
MaxInbox == 3

\* literals joined into one user text
MaxWords == 2

(* ------------------------- program constants --------------------------- *)

PromptCap == 50

HistoryWindow == 4

(* ------------------------------ strings -------------------------------- *)

LowerChars ==
  <<"a", "b", "ch", "d", "e", "eh", "f", "g", "h", "i", "j", "k", "l", "m", "mz", "n", "o", "p", "r", "s", "sch", "sh", "t", "ts", "u", "v", "y", "ya", "yu", "z", "zh",
    "lat_a", "lat_g", "lat_l", "lat_k", "lat_u">>

UpperChars ==
  <<"A", "B", "CH", "D", "E", "EH", "F", "G", "H", "I", "J", "K", "L", "M", "MZ", "N", "O", "P", "R", "S", "SCH", "SH", "T", "TS", "U", "V", "Y", "YA", "YU", "Z", "ZH",
    "lat_A", "lat_G", "lat_L", "lat_K", "lat_U">>

location_keywords ==
  <<<<"u", "l", "i", "ts", "a">>,
     <<"u", "l", ".">>,
     <<"p", "r", "o", "s", "p", "e", "k", "t">>,
     <<"p", "r", ".">>,
     <<"p", "e", "r", "e", "u", "l", "o", "k">>,
     <<"p", "e", "r", ".">>,
     <<"r", "a", "j", "o", "n">>,
     <<"r", "ya", "d", "o", "m">>,
     <<"o", "k", "o", "l", "o">>,
     <<"v", "o", "z", "l", "e">>,
     <<"n", "e", "d", "a", "l", "e", "k", "o">>,
     <<"b", "l", "i", "z", "k", "o">>,
     <<"ts", "e", "n", "t", "r">>,
     <<"ts", "e", "n", "t", "r", "e">>,
     <<"o", "k", "r", "a", "i", "n", "a">>>>

districts ==
  <<<<"l", "e", "n", "i", "n", "s", "k", "i", "j">>,
     <<"m", "o", "s", "k", "o", "v", "s", "k", "i", "j">>,
     <<"o", "k", "t", "ya", "b", "r", "mz", "s", "k", "i", "j">>,
     <<"ts", "e", "n", "t", "r">>,
     <<"ts", "e", "n", "t", "r", "a", "l", "mz", "n", "y", "j">>>>

quality_words ==
  <<<<"h", "o", "r", "o", "sh", "i", "j">>,
     <<"l", "u", "ch", "sh", "i", "j">>,
     <<"o", "p", "y", "t", "n", "y", "j">>,
     <<"p", "r", "o", "v", "e", "r", "e", "n", "n", "y", "j">>>>

nearby_words ==
  <<<<"b", "l", "i", "z", "k", "o">>,
     <<"r", "ya", "d", "o", "m">>,
     <<"n", "e", "d", "a", "l", "e", "k", "o">>,
     <<"o", "k", "o", "l", "o">>>>

reviews_words ==
  <<<<"o", "t", "z", "y", "v">>,
     <<"r", "e", "j", "t", "i", "n", "g">>,
     <<"r", "e", "k", "o", "m", "e", "n", "d", "u", "yu", "t">>>>

center_keywords ==
  <<<<"ts", "e", "n", "t", "r">>,
     <<"l", "e", "n", "i", "n", "a">>,
     <<"k", "i", "r", "o", "v", "a">>,
     <<"t", "e", "a", "t", "r", "a", "l", "mz", "n", "a", "ya">>,
     <<"p", "l", "o", "sch", "a", "d", "mz">>,
     <<"o", "k", "t", "ya", "b", "r", "mz", "s", "k", "a", "ya">>>>

stop_words ==
  <<<<"u", "l", "i", "ts", "a">>,
     <<"u", "l", "i", "ts", "e">>,
     <<"p", "r", "o", "s", "p", "e", "k", "t">>,
     <<"p", "e", "r", "e", "u", "l", "o", "k">>,
     <<"r", "a", "j", "o", "n">>,
     <<"r", "ya", "d", "o", "m">>,
     <<"o", "k", "o", "l", "o">>,
     <<"v", "o", "z", "l", "e">>,
     <<"n", "e", "d", "a", "l", "e", "k", "o">>,
     <<"b", "l", "i", "z", "k", "o">>,
     <<"n", "u", "zh", "e", "n">>,
     <<"i", "sch", "u">>,
     <<"n", "a", "j", "t", "i">>>>

synonyms ==
  <<<<<<"o", "k", "u", "l", "i", "s", "t">>,
      <<"o", "f", "t", "a", "l", "mz", "m", "o", "l", "o", "g">>>>,
    <<<<"g", "l", "a", "z", "n", "o", "j">>,
      <<"o", "f", "t", "a", "l", "mz", "m", "o", "l", "o", "g">>>>,
    <<<<"z", "u", "b", "n", "o", "j">>,
      <<"s", "t", "o", "m", "a", "t", "o", "l", "o", "g">>>>,
    <<<<"d", "a", "n", "t", "i", "s", "t">>,
      <<"s", "t", "o", "m", "a", "t", "o", "l", "o", "g">>>>,
    <<<<"d", "e", "t", "s", "k", "i", "j", " ", "v", "r", "a", "ch">>,
      <<"p", "e", "d", "i", "a", "t", "r">>>>,
    <<<<"l", "o", "r">>,
      <<"o", "t", "o", "r", "i", "n", "o", "l", "a", "r", "i", "n", "g", "o", "l", "o", "g">>>>,
    <<<<"u", "h", "o", "-", "g", "o", "r", "l", "o", "-", "n", "o", "s">>,
      <<"o", "t", "o", "r", "i", "n", "o", "l", "a", "r", "i", "n", "g", "o", "l", "o", "g">>>>,
    <<<<"u", "h", "o", "g", "o", "r", "l", "o", "n", "o", "s">>,
      <<"o", "t", "o", "r", "i", "n", "o", "l", "a", "r", "i", "n", "g", "o", "l", "o", "g">>>>,
    <<<<"n", "e", "v", "r", "o", "l", "o", "g">>,
      <<"n", "e", "v", "r", "o", "l", "o", "g">>>>,
    <<<<"p", "s", "i", "h", "i", "a", "t", "r">>,
      <<"p", "s", "i", "h", "i", "a", "t", "r">>>>,
    <<<<"h", "i", "r", "u", "r", "g">>,
      <<"h", "i", "r", "u", "r", "g">>>>,
    <<<<"t", "e", "r", "a", "p", "e", "v", "t">>,
      <<"t", "e", "r", "a", "p", "e", "v", "t">>>>>>

center_token == <<"ts", "e", "n", "t", "r">>

kaluga_cyr == <<"k", "a", "l", "u", "g", "a">>

kaluga_lat == <<"lat_k", "lat_a", "lat_l", "lat_u", "lat_g", "lat_a">>

SeqToSet(s) == {s[i] : i \in DOMAIN s}

\* str.lower() on one character
LowerMap ==
  [c \in SeqToSet(UpperChars) |->
     LowerChars[CHOOSE i \in DOMAIN UpperChars : UpperChars[i] = c]]

LowerChar(c) == IF c \in DOMAIN LowerMap THEN LowerMap[c] ELSE c

Lower(s) == [i \in DOMAIN s |-> LowerChar(s[i])]

\* Python `a in b` for strings
Contains(b, a) ==
  \E i \in 1..(Len(b) - Len(a) + 1) : \A k \in 1..Len(a) : b[i + k - 1] = a[k]

AnyIn(words, text) == \E i \in DOMAIN words : Contains(text, words[i])

RECURSIVE SplitFrom(_, _, _)
SplitFrom(s, i, cur) ==
  IF i > Len(s)
    THEN IF cur = <<>> THEN <<>> ELSE <<cur>>
    ELSE IF s[i] = " "
           THEN (IF cur = <<>> THEN <<>> ELSE <<cur>>) \o SplitFrom(s, i + 1, <<>>)
           ELSE SplitFrom(s, i + 1, Append(cur, s[i]))

\* Python str.split() on whitespace
Split(s) == SplitFrom(s, 1, <<>>)

(* --------------------------- python dicts ------------------------------ *)

EmptyDict == <<>>

HasKey(d, k) == k \in DOMAIN d

Get(d, k, default) == IF k \in DOMAIN d THEN d[k] ELSE default

Update(d, upd) ==
  [k \in (DOMAIN d) \cup (DOMAIN upd) |-> IF k \in DOMAIN upd THEN upd[k] ELSE d[k]]

\* Python list[i] with a possibly negative 0-based index
PyIndex(s, i) == IF i >= 0 THEN s[i + 1] ELSE s[Len(s) + i + 1]

(* ------------------------- Location Extractor -------------------------- *)

RECURSIVE LastDistrict(_, _, _)
LastDistrict(ql, i, cur) ==
  IF i > Len(districts) THEN cur
  ELSE LastDistrict(ql, i + 1, IF Contains(ql, districts[i]) THEN <<districts[i]>> ELSE cur)

\* user texts: "nuzhen stomatolog", "stomatolog ulitsa lenina"
Queries ==
  {<<"n", "u", "zh", "e", "n", " ", "s", "t", "o", "m", "a", "t", "o", "l", "o", "g">>,
   <<"s", "t", "o", "m", "a", "t", "o", "l", "o", "g", " ", "u", "l", "i", "ts", "a", " ", "l", "e", "n", "i", "n", "a">>}

\* district is <<>> for None and <<d>> for the literal d
ExtractLocationInfo(user_query) ==
  LET ql == Lower(user_query)
      district == LastDistrict(ql, 1, <<>>)
      center == Contains(ql, center_token)
  IN [has_location |-> AnyIn(location_keywords, ql) \/ district # <<>> \/ center,
      district |-> district,
      near_center |-> center,
      preferences |->
        (IF AnyIn(quality_words, ql) THEN <<"quality">> ELSE <<>>) \o
        (IF AnyIn(nearby_words, ql) THEN <<"nearby">> ELSE <<>>) \o
        (IF AnyIn(reviews_words, ql) THEN <<"reviews">> ELSE <<>>)]

\* _extract_location_info on the user texts, computed once per text
LocationInfoOf == [q \in Queries |-> ExtractLocationInfo(q)]

extract_location_info(user_query) == LocationInfoOf[user_query]

match_address(hospital_address, location_query) ==
  LET address_lower == Lower(hospital_address)
      query_lower == Lower(location_query)
      location_info == extract_location_info(location_query)
      query_words == SelectSeq(Split(query_lower),
                       LAMBDA w : Len(w) > 3 /\ w \notin SeqToSet(stop_words))
  IN \/ (location_info.district # <<>> /\ Contains(address_lower, location_info.district[1]))
     \/ (location_info.near_center /\ AnyIn(center_keywords, address_lower))
     \/ \E i \in DOMAIN query_words : Contains(address_lower, query_words[i])
(* ------------------- Response Interpreter: location -------------------- *)

Digits == <<"0", "1", "2", "3", "4", "5", "6", "7", "8", "9">>

IsDigit(c) == \E i \in DOMAIN Digits : Digits[i] = c

DigitVal(c) == (CHOOSE i \in DOMAIN Digits : Digits[i] = c) - 1

RECURSIVE ToIntFrom(_, _, _)
ToIntFrom(ds, i, acc) ==
  IF i > Len(ds) THEN acc ELSE ToIntFrom(ds, i + 1, acc * 10 + DigitVal(ds[i]))

\* Python int() of a run of digits
ToInt(ds) == ToIntFrom(ds, 1, 0)

RECURSIVE FindallFrom(_, _, _)
FindallFrom(s, i, cur) ==
  IF i > Len(s)
    THEN IF cur = <<>> THEN <<>> ELSE <<cur>>
    ELSE IF IsDigit(s[i])
           THEN FindallFrom(s, i + 1, Append(cur, s[i]))
           ELSE (IF cur = <<>> THEN <<>> ELSE <<cur>>) \o FindallFrom(s, i + 1, <<>>)

\* re.findall(r'\d+', text): the maximal digit runs, in order of appearance
FindallDigits(s) == FindallFrom(s, 1, <<>>)

\* [int(n) - 1 for n in numbers if int(n) <= len(hospitals)]
SelectedIndices(ai_response, hospitals) ==
  LET numbers == FindallDigits(ai_response)
      kept == SelectSeq(numbers, LAMBDA n : ToInt(n) <= Len(hospitals))
  IN [j \in DOMAIN kept |-> ToInt(kept[j]) - 1]

\* [hospitals[i] for i in selected_indices if i < len(hospitals)]
FilteredByIndices(ai_response, hospitals) ==
  LET sel == SelectedIndices(ai_response, hospitals)
      ok == SelectSeq(sel, LAMBDA i : i < Len(hospitals))
  IN [j \in DOMAIN ok |-> PyIndex(hospitals, ok[j])]

\* h.get('address') and ('калуга' in address.lower() or 'kaluga' in address.lower())
InKaluga(h) ==
  /\ HasKey(h, "address")
  /\ h["address"] # <<>>
  /\ \/ Contains(Lower(h["address"]), kaluga_cyr)
     \/ Contains(Lower(h["address"]), kaluga_lat)

FilteredKaluga(ai_response, hospitals) ==
  SelectSeq(FilteredByIndices(ai_response, hospitals), InKaluga)

\* the reply names at least one integer of [1, len(hospitals)]
HasUsableIndex(ai_response, hospitals) ==
  LET numbers == FindallDigits(ai_response)
  IN \E j \in DOMAIN numbers : 1 <= ToInt(numbers[j]) /\ ToInt(numbers[j]) <= Len(hospitals)

\* the hospitals enumerated in the prompt: hospitals[:50]
PromptHospitals(hospitals) ==
  SubSeq(hospitals, 1, IF Len(hospitals) < PromptCap THEN Len(hospitals) ELSE PromptCap)

\* the oracle is called only past the two early returns
FilterCallsOracle(user_query, hospitals) ==
  hospitals # <<>> /\ extract_location_info(user_query).has_location

\* which return statement of filter_hospitals_by_location is taken
FilterPath(user_query, hospitals, oracle) ==
  IF hospitals = <<>> THEN "empty_input"
  ELSE IF ~extract_location_info(user_query).has_location THEN "no_location"
  ELSE IF ~oracle.ok THEN "fallback"
  ELSE IF SelectedIndices(oracle.text, hospitals) = <<>> THEN "no_indices"
  ELSE IF FilteredKaluga(oracle.text, hospitals) # <<>> THEN "validated"
  ELSE "unvalidated"

\* a filter that answers a failed oracle call with the list it was given
filter_hospitals_unfiltered(user_query, hospitals, oracle) ==
  LET path == FilterPath(user_query, hospitals, oracle)
  IN CASE path = "empty_input" -> <<>>
       [] path = "validated" -> FilteredKaluga(oracle.text, hospitals)
       [] path = "unvalidated" -> FilteredByIndices(oracle.text, hospitals)
       [] OTHER -> hospitals

filter_hospitals_by_location(user_query, hospitals, oracle) ==
  LET path == FilterPath(user_query, hospitals, oracle)
  IN CASE path = "empty_input" -> <<>>
       [] path = "no_location" -> hospitals
       [] path = "fallback" ->
            SelectSeq(hospitals, LAMBDA h : match_address(Get(h, "address", <<>>), user_query))
       [] path = "no_indices" -> hospitals
       [] path = "validated" -> FilteredKaluga(oracle.text, hospitals)
       [] OTHER -> FilteredByIndices(oracle.text, hospitals)
(* ------------------- Response Interpreter: specialty ------------------- *)

\* Python None for an id; SQLite row ids start at 1
None == 0

MinOf(S) == CHOOSE i \in S : \A j \in S : i <= j

\* first specialty, in list order, whose name contains canonical
FirstContaining(canonical, specialties) ==
  LET hits == {j \in DOMAIN specialties :
                 Contains(Lower(specialties[j].name), Lower(canonical))}
  IN IF hits = {} THEN None ELSE specialties[MinOf(hits)].id

\* a lookup that leaves the synonym table out
SynonymLookupSkipped(response_lower, specialties, k) == None

RECURSIVE SynonymLookup(_, _, _)
SynonymLookup(response_lower, specialties, k) ==
  IF k > Len(synonyms) THEN None
  ELSE IF /\ Contains(response_lower, synonyms[k][1])
          /\ FirstContaining(synonyms[k][2], specialties) # None
         THEN FirstContaining(synonyms[k][2], specialties)
         ELSE SynonymLookup(response_lower, specialties, k + 1)

\* a scan that keeps the last specialty named in the text, not the first
extract_specialty_id_last(ai_response, specialties) ==
  LET response_lower == Lower(ai_response)
      direct == {j \in DOMAIN specialties :
                   Contains(response_lower, Lower(specialties[j].name))}
  IN IF direct # {}
       THEN specialties[CHOOSE i \in direct : \A j \in direct : j <= i].id
     ELSE SynonymLookup(response_lower, specialties, 1)

extract_specialty_id(ai_response, specialties) ==
  LET response_lower == Lower(ai_response)
      direct == {j \in DOMAIN specialties :
                   Contains(response_lower, Lower(specialties[j].name))}
  IN IF direct # {} THEN specialties[MinOf(direct)].id
     ELSE SynonymLookup(response_lower, specialties, 1)

(* ------------------------------ catalog -------------------------------- *)

SpecialtyPool ==
  <<[id |-> 7, name |-> <<"D", "e", "t", "s", "k", "i", "j", " ", "s", "t", "o", "m", "a", "t", "o", "l", "o", "g">>],
    [id |-> 3, name |-> <<"L", "O", "R">>],
    [id |-> 5, name |-> <<"N", "e", "v", "r", "o", "l", "o", "g">>],
    [id |-> 9, name |-> <<"N", "e", "j", "r", "o", "h", "i", "r", "u", "r", "g">>],
    [id |-> 2, name |-> <<"O", "t", "o", "r", "i", "n", "o", "l", "a", "r", "i", "n", "g", "o", "l", "o", "g">>],
    [id |-> 8, name |-> <<"O", "f", "t", "a", "l", "mz", "m", "o", "l", "o", "g">>],
    [id |-> 6, name |-> <<"P", "e", "d", "i", "a", "t", "r">>],
    [id |-> 1, name |-> <<"S", "t", "o", "m", "a", "t", "o", "l", "o", "g">>],
    [id |-> 4, name |-> <<"T", "e", "r", "a", "p", "e", "v", "t">>],
    [id |-> 10, name |-> <<"H", "i", "r", "u", "r", "g">>]>>

FetchLimit == 100

Limit(rows, n) == SubSeq(rows, 1, IF Len(rows) < n THEN Len(rows) ELSE n)

\* hospitals rows in ORDER BY name; the ids do not follow the names
HospitalRows ==
  [i \in 1..MaxHosp |-> [id |-> 10 + (MaxHosp + 1 - i), name |-> <<"b", Digits[i + 1]>>]]

\* doctor_work_placements: Stomatolog (1) at every hospital, Detskij
\* stomatolog (7) at the first one, Terapevt (4) nowhere
Placements ==
  {[doctor |-> 100 + i, hospital |-> HospitalRows[i].id, specialty |-> 1] : i \in 1..MaxHosp}
    \cup {[doctor |-> 200, hospital |-> HospitalRows[1].id, specialty |-> 7]}

FullCatalog ==
  [specialties |-> <<SpecialtyPool[1], SpecialtyPool[8], SpecialtyPool[9]>>,
   hospitals |-> HospitalRows,
   placements |-> Placements]

EmptyCatalog == [specialties |-> <<>>, hospitals |-> <<>>, placements |-> {}]

get_specialties(cat) == Limit(cat.specialties, FetchLimit)

\* SELECT DISTINCT h.id, h.name ... WHERE dwp.specialty_id = ? ORDER BY h.name
get_hospitals(cat, specialty_id) ==
  Limit(SelectSeq(cat.hospitals,
                  LAMBDA h : \E p \in cat.placements :
                               p.hospital = h.id /\ p.specialty = specialty_id),
        FetchLimit)

get_doctors(cat, hospital_id, specialty_id) ==
  {p.doctor : p \in {q \in cat.placements :
                       q.hospital = hospital_id /\ q.specialty = specialty_id}}

Ids(rows) == [i \in DOMAIN rows |-> rows[i].id]

\* ids carried by the item buttons in the chat: keyboards of earlier
\* messages stay pressable, also after the session data is gone
ButtonIds == {HospitalRows[i].id : i \in 1..MaxHosp}
(* ------------------------- oracle and inputs --------------------------- *)

ReplyChars == {"0", "1", "2", "5", ","}

SeqsUpTo(S, n) == UNION {[1..k -> S] : k \in 0..n}

\* texts the oracle may answer a filtering prompt with
Replies == SeqsUpTo(ReplyChars, MaxReplyLen)

OracleFailure == [ok |-> FALSE, text |-> <<>>]

FilterOracle == {[ok |-> TRUE, text |-> r] : r \in Replies} \cup {OracleFailure}

\* the filtering answers a session is run against
SessionReplyChars == {"0", "1", "2", ","}

SessionOracle ==
  {[ok |-> TRUE, text |-> r] : r \in SeqsUpTo(SessionReplyChars, MaxReplyLen)}
    \cup {OracleFailure}

\* texts the oracle may answer a classification prompt with:
\* "Stomatolog", "zubnoj", "Terapevt", "vrach"
ClassifyTexts ==
  {<<"S", "t", "o", "m", "a", "t", "o", "l", "o", "g">>,
   <<"z", "u", "b", "n", "o", "j">>,
   <<"T", "e", "r", "a", "p", "e", "v", "t">>,
   <<"v", "r", "a", "ch">>}

ClassifyOracle == {[ok |-> TRUE, text |-> t] : t \in ClassifyTexts} \cup {OracleFailure}

\* what one call of filter_hospitals_by_location returns, with the return
\* statement taken, for each answer the oracle may give
FilterOutcomes(user_query, hospitals, oracles) ==
  {[path |-> [ret |-> FilterPath(user_query, hospitals, o),
              usable |-> o.ok /\ HasUsableIndex(o.text, hospitals),
              query |-> user_query],
    hospitals |-> filter_hospitals_by_location(user_query, hospitals, o)] : o \in oracles}

\* the lists get_hospitals can hand to the filter in a session
SessionLists ==
  {get_hospitals(c, SpecialtyPool[j].id) :
     c \in {FullCatalog, EmptyCatalog}, j \in DOMAIN SpecialtyPool}

\* the returns of the filter per query and list, computed once
SessionOutcomeTable ==
  [q \in Queries |->
     [hs \in SessionLists |-> FilterOutcomes(q, hs, SessionOracle)]]

NoPath == [ret |-> "none", usable |-> FALSE, query |-> <<>>]

NotFiltered ==
  [path |-> [ret |-> "not_called", usable |-> FALSE, query |-> <<>>], hospitals |-> <<>>]

LocHas(location_info) ==
  HasKey(location_info, "has_location") /\ location_info["has_location"]

NameOf(specialties, specialty_id) ==
  LET hits == {j \in DOMAIN specialties : specialties[j].id = specialty_id}
  IN specialties[MinOf(hits)].name

\* the system prompt of search_doctors
SystemMessage == [role |-> "system", content |-> <<"system_prompt">>]

\* a search_doctors that sends the whole conversation_history
OracleMessagesWhole(user_query, conversation_history) ==
  <<SystemMessage>> \o conversation_history \o <<[role |-> "user", content |-> user_query]>>

\* the messages search_doctors sends: the system prompt, the entries of
\* conversation_history[-4:] with the role USER for 'user' and ASSISTANT for
\* any other role, and the current query
OracleMessages(user_query, conversation_history) ==
  LET n == Len(conversation_history)
      from == IF n > HistoryWindow THEN n - HistoryWindow + 1 ELSE 1
      recent == SubSeq(conversation_history, from, n)
  IN <<SystemMessage>>
       \o [i \in DOMAIN recent |->
             [role |-> IF recent[i].role = "user" THEN "user" ELSE "assistant",
              content |-> recent[i].content]]
       \o <<[role |-> "user", content |-> user_query]>>

\* a search_doctors that answers a failed oracle call with the first
\* specialty of the catalog
search_doctors_guessing(user_query, specialties, conversation_history, oracle) ==
  LET location_info == extract_location_info(user_query)
      specialty_id == IF oracle.ok THEN extract_specialty_id(oracle.text, specialties)
                                   ELSE specialties[1].id
  IN [response |-> IF oracle.ok THEN oracle.text ELSE <<"error">>,
      specialty_id |-> specialty_id,
      specialty_name |-> IF specialty_id # None
                           THEN NameOf(specialties, specialty_id) ELSE <<>>,
      needs_clarification |-> specialty_id = None,
      location_info |-> location_info]

search_doctors(user_query, specialties, conversation_history, oracle) ==
  IF ~oracle.ok
    THEN [response |-> <<"error">>, specialty_id |-> None, specialty_name |-> <<>>,
          needs_clarification |-> TRUE, location_info |-> EmptyDict]
    ELSE LET location_info == extract_location_info(user_query)
             specialty_id == extract_specialty_id(oracle.text, specialties)
         IN [response |-> IF location_info.has_location /\ specialty_id # None
                            THEN oracle.text \o <<"+filter">>
                            ELSE oracle.text,
             specialty_id |-> specialty_id,
             specialty_name |-> IF specialty_id # None
                                  THEN NameOf(specialties, specialty_id) ELSE <<>>,
             needs_clarification |-> specialty_id = None,
             location_info |-> location_info]

(* --------------------------- session state ----------------------------- *)

VARIABLES
  fsm,        \* FSM state of the session ("none" when no state is set)
  data,       \* FSM data of the session, a Python dict
  db,         \* the catalog
  aiEnabled,  \* bot._ai_assistant is set and the AI router is registered
  shown,      \* option list rendered by the last handler
  sent,       \* messages and alerts emitted by the last handler
  last,       \* the last handler, its outcome and its oracle calls
  trail,      \* the latest forward AI-filter list and the handlers since
  env,        \* the user texts and oracle answers the run draws from
  probe,      \* inputs and result of a function applied on its own
  task        \* a coroutine of the process that is suspended at an await

vars == <<fsm, data, db, aiEnabled, shown, sent, last, trail, env, probe, task>>

\* no coroutine is suspended
NoTask == [pc |-> "none"]

\* a run with few texts and answers: one text with a street in it, a
\* classification that names Stomatolog or fails, "1", "11", "111" or a failure
\* for the filter
NarrowQueries == {q \in Queries : ExtractLocationInfo(q).has_location}

NarrowClassify ==
  {[ok |-> TRUE, text |-> <<"S", "t", "o", "m", "a", "t", "o", "l", "o", "g">>], OracleFailure}

NarrowOracle ==
  {[ok |-> TRUE, text |-> r] : r \in SeqsUpTo({"1"}, MaxReplyLen) \ {<<>>}} \cup {OracleFailure}

NarrowOutcomeTable ==
  [q \in NarrowQueries |->
     [hs \in SessionLists |-> FilterOutcomes(q, hs, NarrowOracle)]]

SessionOutcomes(user_query, hospitals) ==
  IF env = "wide" THEN SessionOutcomeTable[user_query][hospitals]
                  ELSE NarrowOutcomeTable[user_query][hospitals]

\* a run that only converses: the text without a location, a classification
\* that names Stomatolog, names no specialty ("vrach") or fails
ChatClassify == NarrowClassify \cup {[ok |-> TRUE, text |-> <<"v", "r", "a", "ch">>]}

\* message.text of the AI handlers and the answers to classification prompts
UserTexts ==
  IF env = "wide" THEN Queries
  ELSE IF env = "chat" THEN Queries \ NarrowQueries
  ELSE NarrowQueries

ClassifyAnswers ==
  IF env = "wide" THEN ClassifyOracle
  ELSE IF env = "chat" THEN ChatClassify
  ELSE NarrowClassify

\* the model follows a conversation_history up to this length
HistoryCap == IF env = "chat" THEN MaxChat ELSE MaxHistory

NoKeyboard == [kind |-> "none", ids |-> <<>>, banner |-> "none"]

NoTrail == [fwd |-> <<>>, phase |-> "none"]

\* what process_ai_query found in the text of the turn; no such turn
NoTurn ==
  [has_location |-> FALSE, oracle_ok |-> FALSE, specialty_id |-> None, ai |-> FALSE,
   messages |-> <<>>]

\* the row create_review inserted in the turn; doctor_id None when none was
\* length: len of the stripped text of a review turn; created: create_review
\* stored the row
NoReview == [doctor_id |-> None, hospital_id |-> None, length |-> -1, created |-> FALSE]

\* the calls show_doctor_card made: "skipped" when a call was not attempted,
\* "none" when the handler did not get as far as the card
NoCard == [geocode |-> "none", map |-> "none", send |-> "none", address |-> FALSE]

Init ==
  /\ fsm = "none"
  /\ data = EmptyDict
  /\ db \in {FullCatalog, EmptyCatalog}
  /\ aiEnabled \in BOOLEAN
  /\ shown = NoKeyboard
  /\ sent = <<>>
  /\ last = [handler |-> "none", outcome |-> "none", path |-> NoPath, oracle_calls |-> 0,
             turn |-> NoTurn, review |-> NoReview, dropped |-> {}, card |-> NoCard]
  /\ trail = NoTrail
  /\ env = "wide"
  /\ probe = <<>>
  /\ task = NoTask

Done(handler, r) ==
  last' = [handler |-> handler, outcome |-> r.outcome, path |-> r.path,
           oracle_calls |-> r.calls,
           turn |-> Get(r, "turn", NoTurn),
           review |-> Get(r, "review", NoReview),
           dropped |-> Get(r, "dropped", {}),
           card |-> Get(r, "card", NoCard)]

\* forward AI-filter step, then a hospital selection, then back navigation
Step(tag) ==
  IF tag = "select" /\ trail.phase = "forward" THEN [trail EXCEPT !.phase = "selected"]
  ELSE IF tag = "back" /\ trail.phase = "selected" THEN [trail EXCEPT !.phase = "back"]
  ELSE NoTrail

StartKeyboard == [kind |-> "start_menu", ids |-> <<>>, banner |-> "none"]

\* what a handler leaves behind: the FSM state, the FSM data, the keyboard
\* it rendered (kind "none" when it rendered no option list) and what it emitted
Commit(handler, r) ==
  /\ fsm' = r.fsm
  /\ data' = r.data
  /\ shown' = r.shown
  /\ sent' = r.sent
  /\ Done(handler, r)
  /\ trail' = IF r.tag = "forward"
                THEN [fwd |-> r.shown.ids, phase |-> "forward"]
                ELSE Step(r.tag)
  /\ UNCHANGED <<db, aiEnabled, env, probe>>

\* a handler that runs from its dispatch to its return with no other
\* handler of the session in between
Apply(handler, r) == Commit(handler, r) /\ UNCHANGED task

Result(f, d, kb, msgs, outcome, path, calls, tag) ==
  [fsm |-> f, data |-> d, shown |-> kb, sent |-> msgs, outcome |-> outcome,
   path |-> path, calls |-> calls, tag |-> tag]

Plain(f, d, kb, msgs, outcome) == Result(f, d, kb, msgs, outcome, NoPath, 0, "other")

\* state.clear(): the result r with the keys the session data held before it
Clear(r) == Update(r, [dropped |-> DOMAIN data])

(* ------------------------------ start.py ------------------------------- *)

\* a /start that is handled only when no FSM state is set
cmd_start_when_idle ==
  /\ fsm = "none"
  /\ Apply("cmd_start",
           Clear(Result("none", EmptyDict, StartKeyboard, <<"welcome">>, "cleared", NoPath, 0, "exit")))

cmd_start ==
  Apply("cmd_start",
        Clear(Result("none", EmptyDict, StartKeyboard, <<"welcome">>, "cleared", NoPath, 0, "exit")))

callback_start ==
  /\ Apply("callback_start",
           Clear(Result("none", EmptyDict, StartKeyboard, <<"welcome">>, "cleared",
                        NoPath, 0, "exit")))

\* /cancel: nothing to cancel when no FSM state is set
cmd_cancel ==
  Apply("cmd_cancel",
        IF fsm = "none"
          THEN Plain(fsm, data, NoKeyboard, <<"nothing_to_cancel">>, "ignored")
          ELSE Clear(Plain("none", EmptyDict, StartKeyboard, <<"cancelled">>, "cleared")))

callback_cancel ==
  Apply("callback_cancel",
        Clear(Plain("none", EmptyDict, StartKeyboard, <<"cancelled">>, "cleared")))

(* ------------------------- standalone_search.py ------------------------ *)

\* ids carried by the specialty and doctor buttons of earlier messages
SpecialtyButtonIds == {FullCatalog.specialties[j].id : j \in DOMAIN FullCatalog.specialties}

DoctorButtonIds == {p.doctor : p \in Placements}

\* get_doctor finds a row: the doctor has a placement at the hospital
get_doctor(cat, doctor_id, hospital_id) ==
  \E p \in cat.placements : p.doctor = doctor_id /\ p.hospital = hospital_id

\* start_search run on FSM state f and data d, after the messages pre
StartSearch(f, d, pre, redirected, fail) ==
  LET specialties == get_specialties(db)
  IN IF fail
       THEN Plain(f, d, NoKeyboard, pre \o <<"alert_error">>, "error")
     ELSE IF specialties = <<>>
       THEN Plain(f, d, NoKeyboard, pre \o <<"alert_no_specialties">>, "no_specialties")
     ELSE Plain("selecting_specialty", d,
                [kind |-> "specialties", ids |-> Ids(specialties), banner |-> "none"],
                pre \o <<"specialty_list">>, redirected)

start_search ==
  \E fail \in BOOLEAN :
    Apply("start_search", StartSearch(fsm, data, <<>>, "listed", fail))

\* a select_specialty that sets the state and does not store the specialty
SelectSpecialtyStateOnly(specialty_id, fail) ==
  LET hospitals == get_hospitals(db, specialty_id)
  IN IF fail \/ hospitals = <<>>
       THEN Plain(fsm, data, NoKeyboard, <<"alert_error">>, "error")
       ELSE Plain("selecting_hospital", data,
                  [kind |-> "hospitals", ids |-> Ids(hospitals), banner |-> "none"],
                  <<"hospital_list">>, "listed")

SelectSpecialty(specialty_id, fail) ==
  LET hospitals == get_hospitals(db, specialty_id)
  IN IF fail
       THEN Plain(fsm, data, NoKeyboard, <<"alert_error">>, "error")
     ELSE IF hospitals = <<>>
       THEN Plain(fsm, data, NoKeyboard, <<"alert_no_hospitals">>, "no_hospitals")
     ELSE Plain("selecting_hospital",
                Update(data, [specialty_id |-> specialty_id]),
                [kind |-> "hospitals", ids |-> Ids(hospitals), banner |-> "none"],
                <<"hospital_list">>, "listed")

select_specialty ==
  \E specialty_id \in SpecialtyButtonIds, fail \in BOOLEAN :
    Apply("select_specialty", SelectSpecialty(specialty_id, fail))

\* the doctor list of a hospital and a specialty, in both search flows
DoctorList(hospital_id, specialty_id) ==
  [kind |-> "doctors", ids |-> <<MinOf(get_doctors(db, hospital_id, specialty_id))>>,
   banner |-> "none"]

\* the callback of the Back button that build_paginated_keyboard puts under
\* a list: the handlers pass it as back_callback
BackCallback(kind) ==
  IF kind = "ai_doctors" THEN "back_to_ai_hospitals"
  ELSE IF kind = "doctors" THEN "back_to_hospitals"
  ELSE IF kind = "hospitals" THEN "back_to_specialties"
  ELSE "none"

SelectHospital(hospital_id, fail) ==
  LET specialty_id == Get(data, "specialty_id", None)
  IN IF specialty_id = None
       THEN Plain(fsm, data, NoKeyboard, <<"alert_no_specialty">>, "no_specialty")
     ELSE IF fail
       THEN Plain(fsm, data, NoKeyboard, <<"alert_error">>, "error")
     ELSE IF get_doctors(db, hospital_id, specialty_id) = {}
       THEN Plain(fsm, data, NoKeyboard, <<"alert_no_doctors">>, "no_doctors")
     ELSE Plain("selecting_doctor",
                Update(data, [hospital_id |-> hospital_id]),
                DoctorList(hospital_id, specialty_id),
                <<"doctor_list">>, "listed")

select_hospital ==
  \E hospital_id \in ButtonIds, fail \in BOOLEAN :
    Apply("select_hospital", SelectHospital(hospital_id, fail))

\* the data service of a bot started with YANDEX_API_KEY set
MappedCatalog == Update(FullCatalog, [yandex_api_key |-> TRUE])

\* hospital_addresses: the hospitals whose LEFT JOIN finds a full_address
hospital_addresses == {HospitalRows[1].id}

\* what the geocoder, the static-map server and the channel do for one card
\* (a service without the key calls neither the geocoder nor the map server)
CardNets ==
  IF Get(db, "yandex_api_key", FALSE)
    THEN [geocode : {"ok", "failed"}, map : {"ok", "failed"}, send : {"ok", "failed"}]
    ELSE [geocode : {"failed"}, map : {"failed"}, send : {"ok", "failed"}]

\* a card that fetches the map whether or not the address was geocoded
ShowDoctorCardEager(d, doctor_id, hospital_id, fail, net) ==
  Update(Plain(fsm, d,
               [kind |-> "doctor_actions", ids |-> <<doctor_id, hospital_id>>, banner |-> "none"],
               <<"doctor_photo">>, "card"),
         [card |-> [geocode |-> "skipped", map |-> net.map, send |-> "ok",
                    address |-> hospital_id \in hospital_addresses]])

\* a card that reports a geocoding or map failure to the user
ShowDoctorCardAlerting(d, doctor_id, hospital_id, fail, net) ==
  Update(Plain(fsm, d, NoKeyboard, <<"alert_error">>, "error"),
         [card |-> [geocode |-> "skipped", map |-> "skipped", send |-> "ok",
                    address |-> hospital_id \in hospital_addresses]])

\* show_doctor_card on the data d: the card, as a photo with a caption when
\* the map was fetched and as text otherwise, or an alert when the doctor is
\* not found or get_doctor (fail) or the send (net.send) raises
ShowDoctorCard(d, doctor_id, hospital_id, fail, net) ==
  LET has_address == hospital_id \in hospital_addresses
      geocode == IF Get(db, "yandex_api_key", FALSE) /\ has_address
                   THEN net.geocode ELSE "skipped"
      coords_available == geocode = "ok"
      map == IF coords_available THEN net.map ELSE "skipped"
      card == [geocode |-> geocode, map |-> map, send |-> net.send, address |-> has_address]
  IN IF fail \/ ~get_doctor(db, doctor_id, hospital_id)
       THEN Plain(fsm, d, NoKeyboard, <<"alert_error">>, "error")
     ELSE IF net.send = "failed"
       THEN Update(Plain(fsm, d, NoKeyboard, <<"alert_error">>, "error"), [card |-> card])
     ELSE Update(Plain(fsm, d,
                       [kind |-> "doctor_actions", ids |-> <<doctor_id, hospital_id>>,
                        banner |-> "none"],
                       <<IF map = "ok" THEN "doctor_photo" ELSE "doctor_card">>, "card"),
                 [card |-> card])

SelectDoctor(doctor_id, fail, net) ==
  LET hospital_id == Get(data, "hospital_id", None)
  IN IF hospital_id = None
       THEN Plain(fsm, data, NoKeyboard, <<"alert_no_hospital">>, "no_hospital")
     ELSE IF fail = "get_doctor" \/ ~get_doctor(db, doctor_id, hospital_id)
       THEN Plain(fsm, data, NoKeyboard, <<"alert_error">>, "error")
     ELSE ShowDoctorCard(Update(data, [doctor_id |-> doctor_id, hospital_id |-> hospital_id]),
                         doctor_id, hospital_id, fail = "card", net)

select_doctor ==
  \E doctor_id \in DoctorButtonIds, fail \in {"none", "get_doctor", "card"}, net \in CardNets :
    Apply("select_doctor", SelectDoctor(doctor_id, fail, net))

BackToDoctors(fail) ==
  LET hospital_id == Get(data, "hospital_id", None)
      specialty_id == Get(data, "specialty_id", None)
  IN IF hospital_id = None \/ specialty_id = None
       THEN StartSearch(fsm, data, <<"alert_lost_context">>, "lost_context", fail)
     ELSE IF fail
       THEN Plain(fsm, data, NoKeyboard, <<"alert_error">>, "error")
     ELSE IF get_doctors(db, hospital_id, specialty_id) = {}
       THEN Plain(fsm, data, NoKeyboard, <<"alert_no_doctors">>, "no_doctors")
     ELSE Plain("selecting_doctor", data, DoctorList(hospital_id, specialty_id),
                <<"doctor_list">>, "listed")

back_to_doctors ==
  \E fail \in BOOLEAN : Apply("back_to_doctors", BackToDoctors(fail))

BackToHospitals(fail) ==
  LET specialty_id == Get(data, "specialty_id", None)
      hospitals == get_hospitals(db, specialty_id)
  IN IF specialty_id = None
       THEN StartSearch(fsm, data, <<"alert_no_specialty">>, "no_specialty", fail)
     ELSE IF fail
       THEN Plain(fsm, data, NoKeyboard, <<"alert_error">>, "error")
     ELSE IF hospitals = <<>>
       THEN Plain(fsm, data, NoKeyboard, <<"alert_no_hospitals">>, "no_hospitals")
     ELSE Plain("selecting_hospital", data,
                [kind |-> "hospitals", ids |-> Ids(hospitals), banner |-> "none"],
                <<"hospital_list">>, "listed")

back_to_hospitals ==
  \E fail \in BOOLEAN : Apply("back_to_hospitals", BackToHospitals(fail))

back_to_specialties ==
  \E fail \in BOOLEAN :
    Apply("back_to_specialties", StartSearch(fsm, data, <<>>, "listed", fail))

\* a new_search that keeps the session
new_search_keeping ==
  \E fail \in BOOLEAN :
    Apply("new_search", Clear(StartSearch(fsm, data, <<>>, "listed", fail)))

\* state.clear() and then start_search
new_search ==
  \E fail \in BOOLEAN :
    Apply("new_search", Clear(StartSearch("none", EmptyDict, <<>>, "listed", fail)))

BackToDoctor(doctor_id, fail, net) ==
  LET hospital_id == Get(data, "hospital_id", None)
  IN IF hospital_id = None
       THEN StartSearch(fsm, data, <<"alert_no_hospital">>, "no_hospital", fail)
     ELSE ShowDoctorCard(data, doctor_id, hospital_id, fail, net)

back_to_doctor ==
  \E doctor_id \in DoctorButtonIds, fail \in BOOLEAN, net \in CardNets :
    Apply("back_to_doctor", BackToDoctor(doctor_id, fail, net))

(* ------------------------- standalone_review.py ------------------------ *)

RECURSIVE LStrip(_), RStrip(_), TextLen(_)

REVIEW_MIN_LENGTH == 10

REVIEW_MAX_LENGTH == 2000

\* a message text as runs of equal characters: "x" for a character that is not
\* whitespace, " " and "nl" for a blank and a line break
Whitespace == {" ", "nl"}

Run(ch, n) == IF n = 0 THEN <<>> ELSE <<[ch |-> ch, n |-> n]>>

\* message.text of a message that carries no text (a photo, a sticker)
NoText == <<[ch |-> "none", n |-> 0]>>

LStrip(text) ==
  IF text # <<>> /\ Head(text).ch \in Whitespace THEN LStrip(Tail(text)) ELSE text

RStrip(text) ==
  IF text # <<>> /\ text[Len(text)].ch \in Whitespace
    THEN RStrip(SubSeq(text, 1, Len(text) - 1)) ELSE text

\* str.strip()
Strip(text) == RStrip(LStrip(text))

\* len()
TextLen(text) == IF text = <<>> THEN 0 ELSE Head(text).n + TextLen(Tail(text))

ReviewLengths ==
  {0, REVIEW_MIN_LENGTH - 1, REVIEW_MIN_LENGTH, REVIEW_MAX_LENGTH, REVIEW_MAX_LENGTH + 1}

\* texts sent while a review is awaited: n characters with whitespace before
\* and after, two words of REVIEW_MIN_LENGTH characters with the blank
\* between them counted, and a message without text
ReviewTexts ==
  ({Run(" ", l) \o Run("x", n) \o Run("nl", r) :
      n \in ReviewLengths, l \in {0, 1}, r \in {0, 2}} \ {<<>>})
    \cup {Run(" ", 1) \o Run("x", 4) \o Run(" ", 1) \o Run("x", REVIEW_MIN_LENGTH - 5)}
    \cup {NoText}

\* the reviews page of a doctor; its write-review button carries the
\* hospital_id of the session data, 0 when there is none
ShowReviews(doctor_id, fail) ==
  LET hospital_id == Get(data, "hospital_id", 0)
  IN IF fail
       THEN Plain(fsm, data, NoKeyboard, <<"alert_error">>, "error")
       ELSE Plain(fsm, data,
                  [kind |-> "reviews", ids |-> <<doctor_id, hospital_id>>, banner |-> "none"],
                  <<"reviews">>, "listed")

show_reviews ==
  \E doctor_id \in DoctorButtonIds, fail \in BOOLEAN :
    Apply("show_reviews", ShowReviews(doctor_id, fail))

\* write_review:{doctor_id}:{hospital_id} of a doctor card or of a reviews page
start_write_review ==
  \E doctor_id \in DoctorButtonIds, hospital_id \in ButtonIds \cup {0} :
    Apply("start_write_review",
          Plain("waiting_for_review",
                Update(data, [doctor_id |-> doctor_id, hospital_id |-> hospital_id]),
                [kind |-> "cancel", ids |-> <<>>, banner |-> "none"],
                <<"write_review">>, "entered"))

\* a handler that stores every text it is sent
ProcessReviewUnchecked(text, fail) ==
  Update(Plain("none", data, NoKeyboard, <<"review_added">>, "saved"),
         [review |-> [doctor_id |-> Get(data, "doctor_id", None),
                      hospital_id |-> Get(data, "hospital_id", None),
                      length |-> TextLen(Strip(text)), created |-> TRUE]])

\* a handler whose except branch reports the failure and leaves the FSM
\* data as it is
ProcessReviewKeeping(text, fail) ==
  Plain("none", data, NoKeyboard, <<"error_saving">>, "error")

\* a handler that drops the session after it stored the review
ProcessReviewForgetting(text, fail) ==
  Update(Clear(Plain("none", EmptyDict,
                     [kind |-> "review_success", ids |-> <<Get(data, "doctor_id", None)>>,
                      banner |-> "none"],
                     <<"review_added">>, "saved")),
         [review |-> [doctor_id |-> Get(data, "doctor_id", None),
                      hospital_id |-> Get(data, "hospital_id", None),
                      length |-> TextLen(Strip(text)), created |-> TRUE]])

\* fail: "create_review" when the INSERT raises (outcome "error"), "answer"
\* when the reply after it does (outcome "reply_failed")
ProcessReview(text, fail) ==
  LET review_text == Strip(text)
      doctor_id == Get(data, "doctor_id", None)
      hospital_id == Get(data, "hospital_id", None)
      seen == [doctor_id |-> doctor_id, hospital_id |-> hospital_id,
               length |-> TextLen(review_text), created |-> FALSE]
      row == [seen EXCEPT !.created = TRUE]
      cleared == Clear(Plain("none", EmptyDict, NoKeyboard, <<"error_saving">>, "error"))
  IN IF text = NoText
       THEN Plain(fsm, data, NoKeyboard, <<>>, "raised")
     ELSE IF TextLen(review_text) < REVIEW_MIN_LENGTH
       THEN Update(Plain(fsm, data, NoKeyboard, <<"too_short">>, "too_short"),
                   [review |-> seen])
     ELSE IF TextLen(review_text) > REVIEW_MAX_LENGTH
       THEN Update(Plain(fsm, data, NoKeyboard, <<"too_long">>, "too_long"),
                   [review |-> seen])
     ELSE IF doctor_id = None \/ hospital_id = None
       THEN Update(Clear(Plain("none", EmptyDict, NoKeyboard, <<"error_no_doctor">>,
                                "lost_context")),
                   [review |-> seen])
     ELSE IF fail = "create_review"
       THEN Update(cleared, [review |-> seen])
     ELSE IF fail = "answer"
       THEN Update([cleared EXCEPT !.outcome = "reply_failed"], [review |-> row])
     ELSE Update(Plain("none", data,
                       [kind |-> "review_success", ids |-> <<doctor_id>>, banner |-> "none"],
                       <<"review_added">>, "saved"),
                 [review |-> row])

process_review ==
  /\ fsm = "waiting_for_review"
  /\ \E text \in ReviewTexts, fail \in {"none", "create_review", "answer"} :
       Apply("process_review", ProcessReview(text, fail))

(* ----------------------------- ai_search.py ---------------------------- *)

start_ai_search ==
  /\ aiEnabled
  /\ Apply("start_ai_search",
           Result("ai_searching", Update(data, [conversation_history |-> <<>>]),
                  NoKeyboard, <<"ai_intro">>, "entered", NoPath, 0, "other"))

\* lines 167-249 of process_ai_query: the specialty is resolved and the
\* catalog returned the non-empty list hospitals for it
ShowAiHospitals(user_query, result, d2, hospitals, f) ==
  LET location_info == result.location_info
      original_count == Len(hospitals)
      has_location == LocHas(location_info)
      filtered == f.hospitals
      path == IF has_location THEN f.path ELSE NotFiltered.path
      narrowed == has_location /\ filtered # <<>> /\ Len(filtered) < Len(hospitals)
      listed == IF narrowed THEN filtered ELSE hospitals
      notice == IF has_location /\ filtered = <<>> THEN <<"no_exact_match">> ELSE <<>>
      banner == IF has_location /\ Len(listed) < original_count THEN "filtered" ELSE "plain"
      calls == IF has_location /\ FilterCallsOracle(user_query, hospitals) THEN 2 ELSE 1
  IN Result("selecting_hospital",
            Update(d2, [filtered_hospitals |-> Ids(listed),
                        filter_applied |-> narrowed,
                        original_count |-> original_count]),
            [kind |-> "ai_hospitals", ids |-> Ids(listed), banner |-> banner],
            <<"ai_response">> \o notice \o <<"hospital_list">>,
            "listed", path, calls, "forward")

\* a deflection that also drops the session
DeflectionClearing(d1) ==
  Result("none", EmptyDict, NoKeyboard, <<"ai_response", "deflect">>,
         "deflect", NoPath, 1, "other")

\* lines 129-138 of process_ai_query: the out-of-domain reply, with the
\* history saved at line 112 in d1
Deflection(d1) ==
  Result(fsm, d1, NoKeyboard, <<"ai_response", "deflect">>, "deflect", NoPath, 1, "other")

\* lines 85-165 of process_ai_query, given the answer of search_doctors;
\* shown.kind = "pending" when the handler goes on to the hospital list
ProcessAiQuery(user_query, fail, result, f) ==
  LET conversation_history == Get(data, "conversation_history", <<>>)
      specialties == get_specialties(db)
      history2 == conversation_history \o
                    <<[role |-> "user", content |-> user_query],
                      [role |-> "assistant", content |-> result.response]>>
      d1 == Update(data, [conversation_history |-> history2])
      d2 == Update(d1, [specialty_id |-> result.specialty_id,
                        specialty_name |-> result.specialty_name,
                        location_info |-> result.location_info,
                        using_ai_search |-> TRUE])
      hospitals == get_hospitals(db, result.specialty_id)
  IN IF fail = "get_specialties"
       THEN Result(fsm, data, StartKeyboard, <<"error_retry">>, "error", NoPath, 0, "other")
     ELSE IF specialties = <<>>
       THEN Clear(Result("none", EmptyDict, StartKeyboard, <<"no_specialties">>,
                         "cleared", NoPath, 0, "other"))
     ELSE IF LocHas(result.location_info) /\ result.needs_clarification
       THEN Result(fsm, d1, NoKeyboard, <<"ai_response", "clarify_specialty">>,
                   "clarify", NoPath, 1, "other")
     ELSE IF result.needs_clarification
       THEN Deflection(d1)
     ELSE IF fail = "get_hospitals"
       THEN Result(fsm, d2, StartKeyboard, <<"ai_response", "error_retry">>,
                   "error", NoPath, 1, "other")
     ELSE IF hospitals = <<>>
       THEN Result(fsm, d2, StartKeyboard, <<"ai_response", "no_hospitals">>,
                   "no_hospitals", NoPath, 1, "other")
     ELSE ShowAiHospitals(user_query, result, d2, hospitals, f)

\* the returns of filter_hospitals_by_location a turn may see: the call is
\* made only when the turn gets as far as the filter
FilterReturns(r, user_query, hospitals) ==
  IF r.outcome = "listed" /\ r.calls = 2
    THEN SessionOutcomes(user_query, hospitals)
    ELSE {NotFiltered}

process_ai_query ==
  /\ aiEnabled
  /\ fsm = "ai_searching"
  /\ Len(Get(data, "conversation_history", <<>>)) + 2 <= HistoryCap
  /\ \E user_query \in UserTexts, classify \in ClassifyAnswers :
       LET result == search_doctors(user_query, get_specialties(db),
                                    Get(data, "conversation_history", <<>>), classify)
           hospitals == get_hospitals(db, result.specialty_id)
           turn == [has_location |-> extract_location_info(user_query).has_location,
                    oracle_ok |-> classify.ok,
                    specialty_id |-> result.specialty_id,
                    ai |-> TRUE,
                    messages |-> OracleMessages(user_query,
                                                Get(data, "conversation_history", <<>>))]
       IN \E fail \in {"none", "get_specialties", "get_hospitals"} :
            \E f \in FilterReturns(ProcessAiQuery(user_query, fail, result, NotFiltered),
                                   user_query, hospitals) :
              LET r == ProcessAiQuery(user_query, fail, result, f)
              IN Apply("process_ai_query",
                       IF r.calls = 0 THEN r ELSE Update(r, [turn |-> turn]))

handle_text_during_doctor_selection ==
  /\ aiEnabled
  /\ fsm = "selecting_doctor"
  /\ Apply("handle_text_during_doctor_selection",
           Result(fsm, data, NoKeyboard, <<"use_buttons">>, "ignored", NoPath, 0, "other"))

\* a selection that stores the hospital before it looks the doctors up
SelectAiHospitalStoringFirst(hospital_id, fail) ==
  LET specialty_id == Get(data, "specialty_id", None)
      doctors == get_doctors(db, hospital_id, specialty_id)
      stored == Update(data, [hospital_id |-> hospital_id])
  IN IF specialty_id = None
       THEN Result(fsm, data, NoKeyboard, <<"alert_no_specialty">>, "no_specialty", NoPath, 0, "other")
     ELSE IF fail \/ doctors = {}
       THEN Result(fsm, stored, NoKeyboard, <<"alert_error">>, "error", NoPath, 0, "other")
     ELSE Result("selecting_doctor", stored,
                 [kind |-> "ai_doctors", ids |-> <<MinOf(doctors)>>, banner |-> "none"],
                 <<"doctor_list">>, "listed", NoPath, 0, "select")

SelectAiHospital(hospital_id, fail) ==
  LET specialty_id == Get(data, "specialty_id", None)
      doctors == get_doctors(db, hospital_id, specialty_id)
  IN IF specialty_id = None
       THEN Result(fsm, data, NoKeyboard, <<"alert_no_specialty">>, "no_specialty", NoPath, 0, "other")
     ELSE IF fail
       THEN Result(fsm, data, NoKeyboard, <<"alert_error">>, "error", NoPath, 0, "other")
     ELSE IF doctors = {}
       THEN Result(fsm, data, NoKeyboard, <<"alert_no_doctors">>, "no_doctors", NoPath, 0, "other")
     ELSE Result("selecting_doctor",
                 Update(data, [hospital_id |-> hospital_id]),
                 [kind |-> "ai_doctors", ids |-> <<MinOf(doctors)>>, banner |-> "none"],
                 <<"doctor_list">>, "listed", NoPath, 0, "select")

select_ai_hospital ==
  /\ aiEnabled
  /\ \E hospital_id \in ButtonIds, fail \in BOOLEAN :
       Apply("select_ai_hospital", SelectAiHospital(hospital_id, fail))

\* fail: "get_hospitals" when the catalog call raises, "answer" when sending
\* the reply of the turn does; the except branch then reports the error
Refinement(specialty_id, user_query, fail, f) ==
  LET location_info == extract_location_info(user_query)
      hospitals == get_hospitals(db, specialty_id)
      filtered_hospitals == f.hospitals
      path == f.path
      calls == IF FilterCallsOracle(user_query, hospitals) THEN 1 ELSE 0
      refined == Update(data, [location_info |-> location_info,
                               filtered_hospitals |-> Ids(filtered_hospitals),
                               filter_applied |-> TRUE,
                               original_count |-> Len(hospitals)])
  IN IF specialty_id = None
       THEN Result(fsm, data, NoKeyboard, <<"no_specialty">>, "no_specialty", NoPath, 0, "other")
     ELSE IF ~location_info.has_location
       THEN IF fail = "answer"
              THEN Result(fsm, data, NoKeyboard, <<"error_filtering">>, "error", NoPath, 0, "other")
              ELSE Result(fsm, data, NoKeyboard, <<"no_address">>, "no_location", NoPath, 0, "other")
     ELSE IF fail = "get_hospitals"
       THEN Result(fsm, data, NoKeyboard, <<"error_filtering">>, "error", NoPath, 0, "other")
     ELSE IF filtered_hospitals = <<>>
       THEN IF fail = "answer"
              THEN Result(fsm, data, NoKeyboard, <<"error_filtering">>, "error", path, calls, "other")
              ELSE Result(fsm, data, NoKeyboard, <<"not_found">>, "not_found", path, calls, "other")
     ELSE IF fail = "answer"
       THEN Result(fsm, refined, NoKeyboard, <<"error_filtering">>, "error", path, calls, "other")
     ELSE Result(fsm, refined,
                 [kind |-> "ai_hospitals", ids |-> Ids(filtered_hospitals), banner |-> "filtered"],
                 <<"hospital_list">>, "listed", path, calls, "forward")

\* the handler with the specialty_id it reads from the FSM data at line 351
HandleTextDuringHospitalSelection(user_query, fail, f) ==
  Refinement(Get(data, "specialty_id", None), user_query, fail, f)

handle_text_during_hospital_selection ==
  /\ aiEnabled
  /\ fsm = "selecting_hospital"
  /\ \E user_query \in UserTexts, fail \in {"none", "get_hospitals", "answer"} :
       LET hospitals == get_hospitals(db, Get(data, "specialty_id", None))
           reached == /\ Get(data, "specialty_id", None) # None
                      /\ extract_location_info(user_query).has_location
                      /\ fail # "get_hospitals"
       IN \E f \in (IF reached THEN SessionOutcomes(user_query, hospitals)
                               ELSE {NotFiltered}) :
            Apply("handle_text_during_hospital_selection",
                  HandleTextDuringHospitalSelection(user_query, fail, f))

\* a back navigation that runs the filter again and stores what it shows
BackToAiHospitalsRefiltering(fail) ==
  LET specialty_id == Get(data, "specialty_id", None)
      all_hospitals == get_hospitals(db, specialty_id)
  IN IF specialty_id = None \/ fail \/ all_hospitals = <<>>
       THEN Result(fsm, data, NoKeyboard, <<"alert_error">>, "error", NoPath, 0, "other")
     ELSE Result("selecting_hospital",
                 Update(data, [filtered_hospitals |-> Ids(all_hospitals),
                               filter_applied |-> FALSE]),
                 [kind |-> "ai_hospitals", ids |-> Ids(all_hospitals), banner |-> "plain"],
                 <<"hospital_list">>, "listed", NoPath, 1, "back")

BackToAiHospitals(fail) ==
  LET specialty_id == Get(data, "specialty_id", None)
      filtered_hospital_ids == Get(data, "filtered_hospitals", <<>>)
      filter_applied == Get(data, "filter_applied", FALSE)
      all_hospitals == get_hospitals(db, specialty_id)
      hospitals == IF filtered_hospital_ids # <<>>
                     THEN SelectSeq(all_hospitals,
                                    LAMBDA h : h.id \in SeqToSet(filtered_hospital_ids))
                     ELSE all_hospitals
  IN IF specialty_id = None
       THEN Result(fsm, data, NoKeyboard, <<"alert_no_specialty">>, "no_specialty", NoPath, 0, "other")
     ELSE IF fail
       THEN Result(fsm, data, NoKeyboard, <<"alert_error">>, "error", NoPath, 0, "other")
     ELSE IF hospitals = <<>>
       THEN Result(fsm, data, NoKeyboard, <<"alert_no_hospitals">>, "no_hospitals", NoPath, 0, "other")
     ELSE Result("selecting_hospital", data,
                 [kind |-> "ai_hospitals", ids |-> Ids(hospitals),
                  banner |-> IF filter_applied THEN "filtered" ELSE "plain"],
                 <<"hospital_list">>, "listed", NoPath, 0, "back")

back_to_ai_hospitals ==
  /\ aiEnabled
  /\ \E fail \in BOOLEAN : Apply("back_to_ai_hospitals", BackToAiHospitals(fail))

(* -------- ai_search.py: a turn that other handlers interleave with ------- *)

\* The dispatcher runs every update as a task of its own, so a handler that
\* is suspended at an await of a channel call shares the FSM storage with
\* the handlers of later updates of the same chat.  A turn is followed from
\* one such await to the next; the catalog calls (sqlite3) and the oracle
\* calls (a blocking client) never yield.

\* the part of the data r.data that a resumed turn writes: update_data merges
\* the fields it names into the data the storage holds now, and the
\* conversation_history was written before the await
Merged(r) ==
  LET written == [k \in DOMAIN r.data \ {"conversation_history"} |-> r.data[k]]
  IN Update(data, written)

\* process_ai_query, lines 59-83: dispatched in ai_searching, suspended at
\* send_chat_action
ai_query_dispatch ==
  /\ aiEnabled
  /\ fsm = "ai_searching"
  /\ task = NoTask
  /\ \E user_query \in UserTexts :
       task' = [pc |-> "typing", handler |-> "process_ai_query", user_query |-> user_query]
  /\ UNCHANGED <<fsm, data, db, aiEnabled, shown, sent, last, trail, env, probe>>

\* lines 85-115: get_data, get_specialties, search_doctors and
\* update_data(conversation_history), suspended at the send of the response
ai_query_classify ==
  /\ task.pc = "typing"
  /\ task.handler = "process_ai_query"
  /\ Len(Get(data, "conversation_history", <<>>)) + 2 <= HistoryCap
  /\ \E classify \in ClassifyAnswers, fail \in {"none", "get_specialties"} :
       LET result == search_doctors(task.user_query, get_specialties(db),
                                    Get(data, "conversation_history", <<>>), classify)
           r == ProcessAiQuery(task.user_query, fail, result, NotFiltered)
       IN IF r.calls = 0
            THEN Commit("process_ai_query", r) /\ task' = NoTask
            ELSE /\ data' = Update(data, [conversation_history |->
                                            r.data["conversation_history"]])
                 /\ task' = [pc |-> "responded", handler |-> "process_ai_query",
                             user_query |-> task.user_query, result |-> result,
                             oracle_ok |-> classify.ok,
                             messages |-> OracleMessages(task.user_query,
                                            Get(data, "conversation_history", <<>>))]
                 /\ UNCHANGED <<fsm, db, aiEnabled, shown, sent, last, trail, env, probe>>

\* lines 117-243: the clarification or the deflection, or update_data of the
\* specialty, get_hospitals, the filter, update_data of the list, suspended at
\* the send of the hospital list
ai_query_resume ==
  /\ task.pc = "responded"
  /\ \E fail \in {"none", "get_hospitals"} :
       LET hospitals == get_hospitals(db, task.result.specialty_id)
           turn == [has_location |-> extract_location_info(task.user_query).has_location,
                    oracle_ok |-> task.oracle_ok,
                    specialty_id |-> task.result.specialty_id,
                    ai |-> TRUE,
                    messages |-> task.messages]
       IN \E f \in FilterReturns(ProcessAiQuery(task.user_query, fail, task.result, NotFiltered),
                                  task.user_query, hospitals) :
            LET r == ProcessAiQuery(task.user_query, fail, task.result, f)
                done == [r EXCEPT !.data = Merged(r), !.fsm = fsm]
            IN IF r.outcome = "listed"
                 THEN /\ data' = Merged(r)
                      /\ task' = [pc |-> "listed", handler |-> "process_ai_query",
                                  done |-> Update(done, [turn |-> turn])]
                      /\ UNCHANGED <<fsm, db, aiEnabled, shown, sent, last, trail, env, probe>>
                 ELSE /\ Commit("process_ai_query", Update(done, [turn |-> turn]))
                      /\ task' = NoTask

\* line 249: set_state(selecting_hospital) after the list was sent
ai_query_finish ==
  /\ task.pc = "listed"
  /\ Commit("process_ai_query", [task.done EXCEPT !.data = data, !.fsm = "selecting_hospital"])
  /\ task' = NoTask

\* handle_text_during_hospital_selection, lines 334-358: dispatched in
\* selecting_hospital, get_data read, suspended at send_chat_action
refinement_dispatch ==
  /\ aiEnabled
  /\ fsm = "selecting_hospital"
  /\ task = NoTask
  /\ \E user_query \in UserTexts :
       IF Get(data, "specialty_id", None) = None
         THEN Commit("handle_text_during_hospital_selection",
                     Refinement(None, user_query, "none", NotFiltered)) /\ task' = NoTask
         ELSE /\ task' = [pc |-> "typing", handler |-> "handle_text_during_hospital_selection",
                          user_query |-> user_query,
                          specialty_id |-> data["specialty_id"]]
              /\ UNCHANGED <<fsm, data, db, aiEnabled, shown, sent, last, trail, env, probe>>

\* lines 360-439: the filter over the hospitals of the specialty_id read
\* before the await, update_data of the list and the reply
refinement_resume ==
  /\ task.pc = "typing"
  /\ task.handler = "handle_text_during_hospital_selection"
  /\ \E fail \in {"none", "get_hospitals", "answer"} :
       LET hospitals == get_hospitals(db, task.specialty_id)
           reached == /\ extract_location_info(task.user_query).has_location
                      /\ fail # "get_hospitals"
       IN \E f \in (IF reached THEN SessionOutcomes(task.user_query, hospitals)
                               ELSE {NotFiltered}) :
            /\ Commit("handle_text_during_hospital_selection",
                      Refinement(task.specialty_id, task.user_query, fail, f))
            /\ task' = NoTask

\* an AI session in which a turn and /start, 'start' or 'new_search' interleave
InitRace ==
  /\ fsm = "none"
  /\ data = EmptyDict
  /\ db \in {FullCatalog, EmptyCatalog}
  /\ aiEnabled = TRUE
  /\ shown = NoKeyboard
  /\ sent = <<>>
  /\ last = [handler |-> "none", outcome |-> "none", path |-> NoPath, oracle_calls |-> 0,
             turn |-> NoTurn, review |-> NoReview, dropped |-> {}, card |-> NoCard]
  /\ trail = NoTrail
  /\ env = "narrow"
  /\ probe = <<>>
  /\ task = NoTask

NextRace ==
  \/ cmd_start
  \/ callback_start
  \/ new_search
  \/ start_ai_search
  \/ ai_query_dispatch
  \/ ai_query_classify
  \/ ai_query_resume
  \/ ai_query_finish
  \/ refinement_dispatch
  \/ refinement_resume

SpecRace == InitRace /\ [][NextRace]_vars

(* -------------------------- main.py: the startup ------------------------ *)

\* the states that the group SearchStates declares
SearchStatesMembers == {"selecting_specialty", "selecting_hospital", "selecting_doctor"}

\* the attributes of SearchStates that the handler modules read while
\* main.py imports them: the state filters of the message decorators
ImportedStates == {"ai_searching", "selecting_doctor", "selecting_hospital"}

\* what the user may send while the process starts
Updates == {"/start", "find_doctor", "ai_search", "text"}

\* the process before "from app.handlers import ..." has run, with or
\* without GIGACHAT_CREDENTIALS in its environment
InitBoot ==
  /\ fsm = "none"
  /\ data = EmptyDict
  /\ db \in {FullCatalog, EmptyCatalog}
  /\ aiEnabled = FALSE
  /\ shown = NoKeyboard
  /\ sent = <<>>
  /\ last = [handler |-> "none", outcome |-> "none", path |-> NoPath, oracle_calls |-> 0,
             turn |-> NoTurn, review |-> NoReview, dropped |-> {}, card |-> NoCard]
  /\ trail = NoTrail
  /\ env = "narrow"
  /\ probe = <<>>
  /\ \E credentials \in BOOLEAN :
       task = [pc |-> "import", credentials |-> credentials, inbox |-> <<>>]

\* the user sends an update; it waits at the server until the bot polls
user_sends ==
  /\ Len(task.inbox) < MaxInbox
  /\ \E u \in Updates : task' = [task EXCEPT !.inbox = Append(@, u)]
  /\ UNCHANGED <<fsm, data, db, aiEnabled, shown, sent, last, trail, env, probe>>

\* main.py line 11 runs the bodies of the four handler modules; an attribute
\* that SearchStates does not have raises AttributeError there, before main()
import_handlers ==
  /\ task.pc = "import"
  /\ task' = [task EXCEPT !.pc = IF ImportedStates \subseteq SearchStatesMembers
                                   THEN "main" ELSE "crashed"]
  /\ UNCHANGED <<fsm, data, db, aiEnabled, shown, sent, last, trail, env, probe>>

NextBoot ==
  \/ user_sends
  \/ import_handlers

SpecBoot == InitBoot /\ [][NextBoot]_vars

\* a session of /start and the AI search
Next ==
  \/ cmd_start
  \/ callback_start
  \/ start_ai_search
  \/ process_ai_query
  \/ handle_text_during_doctor_selection
  \/ select_ai_hospital
  \/ handle_text_during_hospital_selection
  \/ back_to_ai_hospitals

Spec == Init /\ [][Next]_vars

\* a session of every search handler, manual and AI
InitSession ==
  /\ fsm = "none"
  /\ data = EmptyDict
  /\ db \in {FullCatalog, EmptyCatalog}
  /\ aiEnabled \in BOOLEAN
  /\ shown = NoKeyboard
  /\ sent = <<>>
  /\ last = [handler |-> "none", outcome |-> "none", path |-> NoPath, oracle_calls |-> 0,
             turn |-> NoTurn, review |-> NoReview, dropped |-> {}, card |-> NoCard]
  /\ trail = NoTrail
  /\ env = "narrow"
  /\ probe = <<>>
  /\ task = NoTask

NextSession ==
  \/ cmd_start
  \/ callback_start
  \/ cmd_cancel
  \/ callback_cancel
  \/ start_search
  \/ select_specialty
  \/ select_hospital
  \/ select_doctor
  \/ back_to_doctors
  \/ back_to_hospitals
  \/ back_to_specialties
  \/ new_search
  \/ back_to_doctor
  \/ start_ai_search
  \/ process_ai_query
  \/ handle_text_during_doctor_selection
  \/ select_ai_hospital
  \/ handle_text_during_hospital_selection
  \/ back_to_ai_hospitals

SpecSession == InitSession /\ [][NextSession]_vars

\* a session of every handler of the four routers
NextFull ==
  \/ NextSession
  \/ show_reviews
  \/ start_write_review
  \/ process_review

SpecFull == InitSession /\ [][NextFull]_vars

\* a session of a bot without the AI router: the manual search and the reviews
InitManual ==
  /\ fsm = "none"
  /\ data = EmptyDict
  /\ db \in {FullCatalog, EmptyCatalog, MappedCatalog}
  /\ aiEnabled = FALSE
  /\ shown = NoKeyboard
  /\ sent = <<>>
  /\ last = [handler |-> "none", outcome |-> "none", path |-> NoPath, oracle_calls |-> 0,
             turn |-> NoTurn, review |-> NoReview, dropped |-> {}, card |-> NoCard]
  /\ trail = NoTrail
  /\ env = "narrow"
  /\ probe = <<>>
  /\ task = NoTask

NextManual ==
  \/ cmd_start
  \/ callback_start
  \/ cmd_cancel
  \/ callback_cancel
  \/ start_search
  \/ select_specialty
  \/ select_hospital
  \/ select_doctor
  \/ back_to_doctors
  \/ back_to_hospitals
  \/ back_to_specialties
  \/ new_search
  \/ back_to_doctor
  \/ show_reviews
  \/ start_write_review
  \/ process_review

SpecManual == InitManual /\ [][NextManual]_vars

\* an AI session of several turns
InitChat ==
  /\ fsm = "none"
  /\ data = EmptyDict
  /\ db \in {FullCatalog, EmptyCatalog}
  /\ aiEnabled = TRUE
  /\ shown = NoKeyboard
  /\ sent = <<>>
  /\ last = [handler |-> "none", outcome |-> "none", path |-> NoPath, oracle_calls |-> 0,
             turn |-> NoTurn, review |-> NoReview, dropped |-> {}, card |-> NoCard]
  /\ trail = NoTrail
  /\ env = "chat"
  /\ probe = <<>>
  /\ task = NoTask

NextChat ==
  \/ cmd_start
  \/ start_ai_search
  \/ process_ai_query
  \/ back_to_ai_hospitals

SpecChat == InitChat /\ [][NextChat]_vars

(* ------------------- main.py: the sessions of two chats ----------------- *)

\* The FSM middleware hands every handler an FSMContext bound to the key of
\* the update's chat; a handler reaches the FSM state and data only through
\* it.  fsm, data, shown, sent, last and trail are those of the chat whose
\* update is being handled, probe.storage holds the records of the storage.

Chats == {1, 2}

\* a storage with one record for the whole bot
StorageKeyShared(chat) == 0

\* the key of a private chat in MemoryStorage: the chat id (and the user id,
\* which is the same number there)
StorageKey(chat) == chat

\* what the storage answers for a key it has never seen: no state, no data
FreshRecord == [fsm |-> "none", data |-> EmptyDict]

\* the record of the chat whose update is being handled
Here == [fsm |-> fsm, data |-> data]

\* the record the storage holds for a chat
RecordOf(chat) ==
  IF StorageKey(chat) = StorageKey(probe.chat)
    THEN Here
    ELSE Get(probe.storage, StorageKey(chat), FreshRecord)

InitPair ==
  /\ fsm = "none"
  /\ data = EmptyDict
  /\ db \in {FullCatalog, EmptyCatalog}
  /\ aiEnabled = TRUE
  /\ shown = NoKeyboard
  /\ sent = <<>>
  /\ last = [handler |-> "none", outcome |-> "none", path |-> NoPath, oracle_calls |-> 0,
             turn |-> NoTurn, review |-> NoReview, dropped |-> {}, card |-> NoCard]
  /\ trail = NoTrail
  /\ env = "narrow"
  /\ probe = [chat |-> 1, storage |-> EmptyDict, left |-> [c \in Chats |-> FreshRecord]]
  /\ task = NoTask

\* the polling loop takes an update of the other chat: the handler of that
\* update gets the context of its key, and nothing of the update has been
\* handled yet; left keeps what the handlers of the chat that was served
\* until now have left behind
next_update ==
  \E chat \in Chats \ {probe.chat} :
    LET stored == Update(probe.storage, [k \in {StorageKey(probe.chat)} |-> Here])
        there == Get(stored, StorageKey(chat), FreshRecord)
    IN /\ fsm' = there.fsm
       /\ data' = there.data
       /\ shown' = NoKeyboard
       /\ sent' = <<>>
       /\ last' = [handler |-> "none", outcome |-> "none", path |-> NoPath,
                   oracle_calls |-> 0, turn |-> NoTurn, review |-> NoReview,
                   dropped |-> {}, card |-> NoCard]
       /\ trail' = NoTrail
       /\ probe' = [chat |-> chat, storage |-> stored,
                    left |-> [probe.left EXCEPT ![probe.chat] = Here]]
       /\ UNCHANGED <<db, aiEnabled, env, task>>

NextPair ==
  \/ next_update
  \/ cmd_start
  \/ start_ai_search
  \/ process_ai_query

SpecPair == InitPair /\ [][NextPair]_vars

(* ------------- filter_hospitals_by_location applied on its own ---------- *)

\* "Kaluga, ul. Lenina" and "Obninsk, ul. Lenina" in Cyrillic, "Kaluga" in Latin
Addresses ==
  <<<<"K", "a", "l", "u", "g", "a", ",", " ", "u", "l", ".", " ", "L", "e", "n", "i", "n", "a">>,
    <<"O", "b", "n", "i", "n", "s", "k", ",", " ", "u", "l", ".", " ", "L", "e", "n", "i", "n", "a">>,
    <<"lat_K", "lat_a", "lat_l", "lat_u", "lat_g", "lat_a">>>>

\* a hospital dict as a caller may pass it: a = 0 carries no address key
HospitalDict(i, a) ==
  IF a = 0
    THEN [id |-> 20 + i, name |-> <<"b">>]
    ELSE [id |-> 20 + i, name |-> <<"b">>, address |-> Addresses[a]]

HospitalLists ==
  {[i \in DOMAIN kinds |-> HospitalDict(i, kinds[i])] :
     kinds \in UNION {[1..n -> 0..Len(Addresses)] : n \in 0..MaxHosp}}

\* a list longer than the prompt enumerates
LongList == [i \in 1..(PromptCap + LongExtra) |-> HospitalDict(i, 0)]

LocationQueries == {q \in Queries : extract_location_info(q).has_location}

FilterInputs ==
  {[user_query |-> q, hospitals |-> hs, oracle |-> o] :
     q \in LocationQueries, hs \in HospitalLists \cup {LongList}, o \in FilterOracle}
    \cup {[user_query |-> q, hospitals |-> hs, oracle |-> OracleFailure] :
            q \in Queries \ LocationQueries, hs \in HospitalLists}

Idle ==
  /\ fsm = "none"
  /\ data = EmptyDict
  /\ db = EmptyCatalog
  /\ aiEnabled = TRUE
  /\ shown = NoKeyboard
  /\ sent = <<>>
  /\ last = [handler |-> "none", outcome |-> "none", path |-> NoPath, oracle_calls |-> 0,
             turn |-> NoTurn, review |-> NoReview, dropped |-> {}, card |-> NoCard]
  /\ trail = NoTrail
  /\ env = "wide"
  /\ task = NoTask

InitFilter ==
  /\ Idle
  /\ \E x \in FilterInputs :
       probe = [user_query |-> x.user_query, hospitals |-> x.hospitals, oracle |-> x.oracle,
                done |-> FALSE, path |-> "none", returned |-> <<>>]

CallFilter ==
  /\ ~probe.done
  /\ probe' = [probe EXCEPT
                 !.done = TRUE,
                 !.path = FilterPath(probe.user_query, probe.hospitals, probe.oracle),
                 !.returned = filter_hospitals_by_location(probe.user_query, probe.hospitals,
                                                           probe.oracle)]
  /\ UNCHANGED <<fsm, data, db, aiEnabled, shown, sent, last, trail, env, task>>

NextFilter == CallFilter

SpecFilter == InitFilter /\ [][NextFilter]_vars

(* ---------------- _extract_specialty_id applied on its own -------------- *)

\* catalogs in ORDER BY name with at most MaxCatalog specialties
Catalogs ==
  {SelectSeq(SpecialtyPool, LAMBDA sp : sp.id \in chosen) :
     chosen \in {c \in SUBSET {SpecialtyPool[j].id : j \in DOMAIN SpecialtyPool} :
                   Cardinality(c) <= MaxCatalog}}

\* "vrach", "ZUBNOJ", "Vam nuzhen stomatolog", "lor ili terapevt"
ExtraFragments ==
  {<<"v", "r", "a", "ch">>,
   <<"Z", "U", "B", "N", "O", "J">>,
   <<"V", "a", "m", " ", "n", "u", "zh", "e", "n", " ", "s", "t", "o", "m", "a", "t", "o", "l", "o", "g">>,
   <<"l", "o", "r", " ", "i", "l", "i", " ", "t", "e", "r", "a", "p", "e", "v", "t">>}

\* oracle texts: each synonym alone, each specialty name alone, and the fragments
ExtractTexts ==
  {synonyms[k][1] : k \in DOMAIN synonyms}
    \cup {SpecialtyPool[j].name : j \in DOMAIN SpecialtyPool}
    \cup ExtraFragments

InitExtract ==
  /\ Idle
  /\ \E t \in ExtractTexts, c \in Catalogs :
       probe = [ai_response |-> t, specialties |-> c, done |-> FALSE, result |-> None]

CallExtract ==
  /\ ~probe.done
  /\ probe' = [probe EXCEPT
                 !.done = TRUE,
                 !.result = extract_specialty_id(probe.ai_response, probe.specialties)]
  /\ UNCHANGED <<fsm, data, db, aiEnabled, shown, sent, last, trail, env, task>>

NextExtract == CallExtract

SpecExtract == InitExtract /\ [][NextExtract]_vars
(* --------------- _extract_location_info applied on its own -------------- *)

\* the district literals, "TSentr", "ulitsa" and "vrach"
LocationWords ==
  SeqToSet(districts) \cup
    {<<"TS", "e", "n", "t", "r">>,
     <<"u", "l", "i", "ts", "a">>,
     <<"v", "r", "a", "ch">>}

RECURSIVE JoinWords(_)
JoinWords(ws) ==
  IF ws = <<>> THEN <<>>
  ELSE IF Len(ws) = 1 THEN ws[1]
  ELSE ws[1] \o <<" ">> \o JoinWords(Tail(ws))

\* user texts of at most MaxWords of the words, separated by blanks
LocationTexts == {JoinWords(ws) : ws \in SeqsUpTo(LocationWords, MaxWords)}

InitLocation ==
  /\ Idle
  /\ \E t \in LocationTexts :
       probe = [user_query |-> t, done |-> FALSE,
                location_info |-> ExtractLocationInfo(<<>>)]

CallLocation ==
  /\ ~probe.done
  /\ probe' = [probe EXCEPT
                 !.done = TRUE,
                 !.location_info = ExtractLocationInfo(probe.user_query)]
  /\ UNCHANGED <<fsm, data, db, aiEnabled, shown, sent, last, trail, env, task>>

NextLocation == CallLocation

SpecLocation == InitLocation /\ [][NextLocation]_vars

(* ------------------------------- claims -------------------------------- *)

AiListTurn ==
  /\ last.handler \in {"process_ai_query", "handle_text_during_hospital_selection"}
  /\ last.outcome = "listed"

\* C1: after a forward AI-filter step, a hospital selection and
\* back_to_ai_hospitals, the list rendered by back_to_ai_hospitals has the
\* same hospital ids in the same order as the list the forward step displayed.
C1_BackReproducesForwardList ==
  trail.phase = "back" => shown.ids = trail.fwd

FrameKeys ==
  {"specialty_id", "specialty_name", "hospital_id", "location_info",
   "filtered_hospitals", "filter_applied", "original_count"}

\* C2: back_to_ai_hospitals makes no oracle call and leaves specialty_id,
\* specialty_name, hospital_id, location_info, filtered_hospitals,
\* filter_applied and original_count as they were; on success it changes
\* only the FSM state, to selecting_hospital, and a repeated back
\* navigation renders the list the previous one rendered.
C2_BackIsFrameOnly ==
  [][last'.handler = "back_to_ai_hospitals" =>
       /\ last'.oracle_calls = 0
       /\ \A k \in FrameKeys :
            /\ HasKey(data', k) <=> HasKey(data, k)
            /\ HasKey(data, k) => data'[k] = data[k]
       /\ data' = data
       /\ IF last'.outcome = "listed" THEN fsm' = "selecting_hospital" ELSE fsm' = fsm
       /\ (last.handler = "back_to_ai_hospitals" /\ last.outcome = "listed"
             /\ last'.outcome = "listed") => shown' = shown]_vars

\* a back navigation out of the doctor list that rendered a narrowed list
C2_Witness ==
  /\ last.handler = "back_to_ai_hospitals"
  /\ last.outcome = "listed"
  /\ fsm = "selecting_hospital"
  /\ HasKey(data, "hospital_id")
  /\ HasKey(data, "filtered_hospitals")
  /\ Get(data, "filter_applied", FALSE)
  /\ shown.kind = "ai_hospitals"
  /\ Len(shown.ids) < Len(get_hospitals(db, data["specialty_id"]))

\* the return statements that answer with hospitals picked by index
IndexPaths == {"validated", "unvalidated"}

\* the integers a reply names
RepliedIntegers(text) == {ToInt(FindallDigits(text)[j]) : j \in DOMAIN FindallDigits(text)}

\* C3: every hospital filter_hospitals_by_location returns by index is the
\* k-th hospital of the list, counted from 1, for an integer k of the reply
\* with 1 <= k <= N; 0 and integers above N contribute nothing.
C3_OnlyInRangeIndices ==
  (probe.done /\ probe.path \in IndexPaths) =>
     \A i \in DOMAIN probe.returned :
       \E k \in RepliedIntegers(probe.oracle.text) :
         /\ 1 <= k
         /\ k <= Len(probe.hospitals)
         /\ probe.returned[i] = probe.hospitals[k]

\* C4: every hospital returned on the oracle-index path has an address
\* that contains the city token, compared case-insensitively.
C4_ReturnedAreInCity ==
  (probe.done /\ probe.path \in IndexPaths) =>
     \A i \in DOMAIN probe.returned : InKaluga(probe.returned[i])

\* C5: when the oracle selected an in-range hospital and no selected
\* hospital passed the city-token check, the turn does not treat the list it
\* got back as a validated selection (filter applied, list shown as filtered).
C5_UnvalidatedIsSurfaced ==
  (AiListTurn /\ last.path.ret = "unvalidated" /\ last.path.usable) =>
     ~(data["filter_applied"] /\ shown.banner = "filtered")

\* C6: when the oracle call succeeded and its reply held no index of
\* [1, N], process_ai_query shows every hospital of the specialty in catalog
\* order and persists filter_applied = FALSE with the ids of the full list.
C6_NoIndexShowsFullList ==
  (/\ last.handler = "process_ai_query"
   /\ last.outcome = "listed"
   /\ last.path.ret \in {"no_indices", "validated", "unvalidated"}
   /\ ~last.path.usable) =>
     /\ shown.ids = Ids(get_hospitals(db, data["specialty_id"]))
     /\ data["filtered_hospitals"] = shown.ids
     /\ data["filter_applied"] = FALSE

\* C7: the list filter_hospitals_by_location returns holds each hospital
\* at most once, also when the reply repeats an index.
C7_NoHospitalTwice ==
  probe.done =>
    \A i, j \in DOMAIN probe.returned :
      i # j => probe.returned[i].id # probe.returned[j].id

\* C8: every hospital returned by index was enumerated in the prompt,
\* which lists the first PromptCap hospitals.
C8_ReturnedWereInPrompt ==
  (probe.done /\ probe.path \in IndexPaths) =>
     \A i \in DOMAIN probe.returned :
       \E j \in DOMAIN PromptHospitals(probe.hospitals) :
         PromptHospitals(probe.hospitals)[j] = probe.returned[i]

\* C9 as stated: for every synonym entry and every catalog holding the
\* canonical specialty, the text made of the synonym alone resolves to the
\* id of the canonical specialty.
C9_SynonymGivesCanonical ==
  probe.done =>
    \A k \in DOMAIN synonyms, j \in DOMAIN probe.specialties :
      (/\ probe.ai_response = synonyms[k][1]
       /\ Lower(probe.specialties[j].name) = synonyms[k][2]) =>
         probe.result = probe.specialties[j].id

\* C9 amended: for every synonym entry and every catalog holding the
\* canonical specialty, the text made of the synonym alone resolves to the
\* first specialty, in catalog order, whose name occurs in the synonym, and
\* when no name occurs in it to the first specialty whose name contains the
\* canonical name.
C9_SynonymGivesFirstMatch ==
  probe.done =>
    \A k \in DOMAIN synonyms, j \in DOMAIN probe.specialties :
      (/\ probe.ai_response = synonyms[k][1]
       /\ Lower(probe.specialties[j].name) = synonyms[k][2]) =>
         LET sp == probe.specialties
             named == {i \in DOMAIN sp : Contains(synonyms[k][1], Lower(sp[i].name))}
             holding == {i \in DOMAIN sp : Contains(Lower(sp[i].name), synonyms[k][2])}
             from == IF named # {} THEN named ELSE holding
         IN \E i \in from :
              /\ \A i2 \in from : i <= i2
              /\ probe.result = sp[i].id

\* a colloquial synonym resolved to its canonical specialty in a catalog of
\* several specialties
C9_Witness ==
  /\ probe.done
  /\ Len(probe.specialties) >= 2
  /\ \E k \in DOMAIN synonyms, j \in DOMAIN probe.specialties :
       /\ synonyms[k][1] # synonyms[k][2]
       /\ probe.ai_response = synonyms[k][1]
       /\ Lower(probe.specialties[j].name) = synonyms[k][2]
       /\ probe.result = probe.specialties[j].id

\* C10 as stated: the result is the first specialty, in catalog order,
\* whose name occurs in the text; the synonym table decides only when no
\* name occurs; and the result is None exactly when no name occurs and no
\* synonym occurring in the text has its canonical name in the catalog.
C10_FirstNameElseSynonym ==
  probe.done =>
    LET sp == probe.specialties
        text == Lower(probe.ai_response)
        named == {i \in DOMAIN sp : Contains(text, Lower(sp[i].name))}
        InCatalog(c) == \E i \in DOMAIN sp : Lower(sp[i].name) = c
    IN /\ named # {} =>
            \E i \in named : (\A i2 \in named : i <= i2) /\ probe.result = sp[i].id
       /\ probe.result = None <=>
            /\ named = {}
            /\ \A k \in DOMAIN synonyms :
                 Contains(text, synonyms[k][1]) => ~InCatalog(synonyms[k][2])

\* C10 amended: as stated, with None exactly when no name occurs and no
\* synonym occurring in the text has a canonical name that is a substring
\* of the name of some specialty of the catalog.
C10_FirstNameElseSynonymSubstring ==
  probe.done =>
    LET sp == probe.specialties
        text == Lower(probe.ai_response)
        named == {i \in DOMAIN sp : Contains(text, Lower(sp[i].name))}
        InSomeName(c) == \E i \in DOMAIN sp : Contains(Lower(sp[i].name), c)
    IN /\ named # {} =>
            \E i \in named : (\A i2 \in named : i <= i2) /\ probe.result = sp[i].id
       /\ probe.result = None <=>
            /\ named = {}
            /\ \A k \in DOMAIN synonyms :
                 Contains(text, synonyms[k][1]) => ~InSomeName(synonyms[k][2])

\* a text in which the names of two specialties of the catalog occur
C10_Witness ==
  /\ probe.done
  /\ probe.result # None
  /\ Cardinality({i \in DOMAIN probe.specialties :
                    Contains(Lower(probe.ai_response),
                             Lower(probe.specialties[i].name))}) >= 2

\* C12: when more than one literal of the district list occurs in the user
\* text, _extract_location_info sets district to the first of them in list
\* order.
C12_FirstDistrictWins ==
  probe.done =>
    LET ql == Lower(probe.user_query)
        hits == {i \in DOMAIN districts : Contains(ql, districts[i])}
    IN Cardinality(hits) > 1 =>
         probe.location_info.district = <<districts[MinOf(hits)]>>
\* C11: process_review stores a review only when the stripped text has
\* between REVIEW_MIN_LENGTH and REVIEW_MAX_LENGTH characters, both included;
\* a text of such a length passes the validation; on a rejected length
\* nothing is stored, the FSM stays in waiting_for_review and doctor_id and
\* hospital_id of the context are what they were.
C11_ReviewOnlyInRange ==
  [][last'.handler = "process_review" /\ last'.review.length >= 0 =>
       LET L == last'.review.length
           inRange == REVIEW_MIN_LENGTH <= L /\ L <= REVIEW_MAX_LENGTH
       IN /\ last'.review.created => inRange
          /\ inRange <=> last'.outcome \notin {"too_short", "too_long"}
          /\ last'.outcome = "saved" => last'.review.created
          /\ ~inRange =>
                /\ fsm' = "waiting_for_review"
                /\ Get(data', "doctor_id", None) = Get(data, "doctor_id", None)
                /\ Get(data', "hospital_id", None) = Get(data, "hospital_id", None)]_vars

\* a stored review of exactly REVIEW_MAX_LENGTH characters
C11_Witness ==
  /\ last.handler = "process_review"
  /\ last.review.created
  /\ last.review.length = REVIEW_MAX_LENGTH

\* the fields of data hold the list that shown displays
ListWritten(d, kb) ==
  /\ \A k \in {"specialty_id", "specialty_name", "filtered_hospitals", "filter_applied",
                "original_count"} : HasKey(d, k)
  /\ d["filtered_hospitals"] = kb.ids
  /\ d["original_count"] = Len(get_hospitals(db, d["specialty_id"]))
  /\ d["specialty_name"] = NameOf(get_specialties(db), d["specialty_id"])
  /\ d["filter_applied"] \in BOOLEAN

\* C13: a process_ai_query turn that lists hospitals stores specialty_id,
\* specialty_name, filtered_hospitals (the ids on display, in their order),
\* filter_applied and original_count and sets selecting_hospital; and no turn
\* takes the session from ai_searching to selecting_hospital without
\* writing these fields.
C13_HandOffWritesList ==
  [][/\ (last'.handler = "process_ai_query" /\ last'.outcome = "listed") =>
          fsm' = "selecting_hospital" /\ ListWritten(data', shown')
     /\ (fsm = "ai_searching" /\ fsm' = "selecting_hospital") =>
          last'.handler = "process_ai_query" /\ ListWritten(data', shown')]_vars

\* C14: a process_ai_query turn whose text carries a location signal and for
\* which no specialty is resolved, the oracle naming none or its call having
\* failed, sends the specialty-clarification prompt and stays in ai_searching.
C14_LocationWithoutSpecialtyClarifies ==
  (/\ last.handler = "process_ai_query"
   /\ last.turn.ai
   /\ last.turn.has_location
   /\ last.turn.specialty_id = None)
    => "clarify_specialty" \in SeqToSet(sent) /\ fsm = "ai_searching"

\* the fields of the search context
ContextKeys ==
  {"specialty_id", "specialty_name", "hospital_id", "doctor_id", "location_info",
   "filtered_hospitals", "filter_applied", "original_count", "conversation_history"}

\* the data d restricted to the keys ks it holds
Only(d, ks) == [k \in DOMAIN d \cap ks |-> d[k]]

\* C15: a process_ai_query turn whose text carries no location signal and for
\* which no specialty is resolved sends the deflection message, stays in
\* ai_searching and changes no field of the context but conversation_history.
C15_DeflectionKeepsContext ==
  [][(/\ last'.handler = "process_ai_query"
      /\ last'.turn.ai
      /\ ~last'.turn.has_location
      /\ last'.turn.specialty_id = None)
       => /\ "deflect" \in SeqToSet(sent')
          /\ fsm' = "ai_searching"
          /\ Only(data', ContextKeys \ {"conversation_history"}) =
               Only(data, ContextKeys \ {"conversation_history"})]_vars

\* a deflected turn in a session whose context holds an earlier search
C15_Witness ==
  /\ last.handler = "process_ai_query"
  /\ last.turn.ai
  /\ ~last.turn.has_location
  /\ last.turn.specialty_id = None
  /\ HasKey(data, "specialty_id")
  /\ HasKey(data, "filtered_hospitals")

\* the fields a location filter writes
FilterKeys == {"filtered_hospitals", "filter_applied", "original_count"}

\* C16: free text in selecting_hospital is a refinement only in a search of
\* AI origin (using_ai_search stored by process_ai_query); in a search of the
\* manual flow it calls no oracle, renders no AI hospital list and leaves
\* filtered_hospitals, filter_applied and original_count as they were.
C16_ManualTextIsNotRefinement ==
  [][(/\ last'.handler = "handle_text_during_hospital_selection"
      /\ ~Get(data, "using_ai_search", FALSE))
       => /\ last'.oracle_calls = 0
          /\ shown'.kind # "ai_hospitals"
          /\ Only(data', FilterKeys) = Only(data, FilterKeys)]_vars

\* C17: a refinement turn changes neither specialty_id, specialty_name,
\* hospital_id nor the FSM state; when the text has no location signal, the
\* filter returns nothing or an error occurs, it also leaves location_info,
\* filtered_hospitals, filter_applied and original_count as they were.
C17_RefinementKeepsContext ==
  [][last'.handler = "handle_text_during_hospital_selection"
       => /\ fsm' = fsm
          /\ Only(data', {"specialty_id", "specialty_name", "hospital_id"}) =
               Only(data, {"specialty_id", "specialty_name", "hospital_id"})
          /\ last'.outcome \in {"no_location", "not_found", "error"} =>
               Only(data', FilterKeys \cup {"location_info"}) =
                 Only(data, FilterKeys \cup {"location_info"})]_vars

\* C18: after /start, the 'start' callback, the 'cancel' callback or the
\* 'new_search' callback no field of the search context is left in the
\* session data, whatever the state and the context before.
C18_TopLevelActionsClear ==
  last.handler \in {"cmd_start", "callback_start", "callback_cancel", "new_search"}
    => \A k \in ContextKeys : ~HasKey(data, k)

\* new_search pressed when every field of the context was there
C18_Witness ==
  /\ last.handler = "new_search"
  /\ ContextKeys \subseteq last.dropped
  /\ data = EmptyDict

\* C19: right after start_ai_search the search context is empty: no
\* specialty_id, specialty_name, hospital_id, filtered_hospitals, filter_applied
\* or original_count of an earlier search is left and conversation_history is
\* the empty list.
C19_AiSearchStartsEmpty ==
  last.handler = "start_ai_search"
    => /\ \A k \in {"specialty_id", "specialty_name", "hospital_id", "filtered_hospitals",
                     "filter_applied", "original_count"} : ~HasKey(data, k)
       /\ Get(data, "conversation_history", None) = <<>>

\* C20: a selection or back navigation that finds the context field it needs
\* missing ends with the session at the specialty-selection step, the
\* specialty list rendered, and not with a report of the error alone.
C20_MissingContextRedirects ==
  (/\ last.handler \in {"select_hospital", "select_ai_hospital", "back_to_hospitals",
                         "back_to_ai_hospitals", "handle_text_during_hospital_selection",
                         "select_doctor", "back_to_doctors", "back_to_doctor"}
   /\ last.outcome \in {"no_specialty", "no_hospital", "lost_context"})
    => fsm = "selecting_specialty" /\ shown.kind = "specialties"

\* C22: a process_ai_query turn whose classification call to the oracle
\* fails ends with a reply to the user, leaves the FSM in ai_searching and
\* leaves specialty_id, specialty_name, hospital_id, filtered_hospitals,
\* filter_applied and original_count as they were before the turn.
C22_FailedClassificationKeepsContext ==
  [][(/\ last'.handler = "process_ai_query"
      /\ last'.turn.ai
      /\ ~last'.turn.oracle_ok)
       => /\ sent' # <<>>
          /\ fsm = "ai_searching" /\ fsm' = "ai_searching"
          /\ Only(data', {"specialty_id", "specialty_name", "hospital_id",
                          "filtered_hospitals", "filter_applied", "original_count"}) =
               Only(data, {"specialty_id", "specialty_name", "hospital_id",
                           "filtered_hospitals", "filter_applied", "original_count"})]_vars

\* a failed classification in a session that holds the list of an earlier
\* search
C22_Witness ==
  /\ last.handler = "process_ai_query"
  /\ last.turn.ai
  /\ ~last.turn.oracle_ok
  /\ "ai_response" \in SeqToSet(sent)
  /\ HasKey(data, "specialty_id")
  /\ HasKey(data, "filtered_hospitals")
  /\ HasKey(data, "hospital_id")

\* C27: when create_review raises, no review is stored, the user is sent the
\* failure message, the FSM state is cleared and no field is left in the
\* session data.
C27_FailedReviewLeavesNothing ==
  (last.handler = "process_review" /\ last.outcome = "error")
    => /\ ~last.review.created
       /\ "error_saving" \in SeqToSet(sent)
       /\ fsm = "none"
       /\ data = EmptyDict

\* create_review raised in a session that held the doctor, the hospital and
\* the specialty of a search
C27_Witness ==
  /\ last.handler = "process_review"
  /\ last.outcome = "error"
  /\ last.review.length >= REVIEW_MIN_LENGTH
  /\ {"doctor_id", "hospital_id", "specialty_id"} \subseteq last.dropped
  /\ data = EmptyDict

\* C29: the session leaves ai_searching only by /start, the 'start', 'cancel'
\* or 'new_search' action, or by a process_ai_query turn that resolved a
\* specialty and hands off to selecting_hospital; no other handler and no
\* error path takes it out of ai_searching.
C29_AiSearchingLeftOnlyByExit ==
  [][(fsm = "ai_searching" /\ fsm' # "ai_searching")
       => \/ last'.handler \in {"cmd_start", "callback_start", "cmd_cancel",
                                 "callback_cancel", "new_search"}
          \/ /\ last'.handler = "process_ai_query"
             /\ last'.outcome = "listed"
             /\ last'.turn.specialty_id # None
             /\ fsm' = "selecting_hospital"]_vars

\* C25: show_doctor_card calls the geocoder only when a geocoding key is
\* configured and the doctor has a real address, and fetches the static map
\* only after the geocoding call of the same card succeeded.
C25_MapOnlyAfterGeocode ==
  (last.handler \in {"select_doctor", "back_to_doctor"} /\ last.card.send # "none")
    => /\ last.card.geocode # "skipped" =>
             Get(db, "yandex_api_key", FALSE) /\ last.card.address
       /\ last.card.map # "skipped" => last.card.geocode = "ok"

\* a card sent with the map of a geocoded address
C25_Witness ==
  /\ last.handler = "select_doctor"
  /\ last.card.geocode = "ok"
  /\ last.card.map = "ok"
  /\ sent = <<"doctor_photo">>

\* C26: when the geocoder is not called or fails, or the map fetch fails,
\* the card is still sent as text with its action buttons, no error alert is
\* sent, and the FSM state and the context stay as they were (select_doctor
\* having stored its selection before the card).
C26_CardDegradesToText ==
  [][(/\ last'.handler \in {"select_doctor", "back_to_doctor"}
      /\ last'.card.send = "ok"
      /\ last'.card.map # "ok")
       => /\ sent' = <<"doctor_card">>
          /\ shown'.kind = "doctor_actions"
          /\ fsm' = fsm
          /\ Only(data', DOMAIN data' \ {"doctor_id", "hospital_id"}) =
               Only(data, DOMAIN data \ {"doctor_id", "hospital_id"})
          /\ Get(data', "hospital_id", None) = Get(data, "hospital_id", None)
          /\ last'.handler = "back_to_doctor" => data' = data]_vars

\* a text card after a failed map fetch, and one after a failed geocoding
C26_Witness ==
  /\ last.handler \in {"select_doctor", "back_to_doctor"}
  /\ last.card.send = "ok"
  /\ last.card.geocode = "ok"
  /\ last.card.map = "failed"
  /\ sent = <<"doctor_card">>
  /\ shown.kind = "doctor_actions"

\* the list returned is the sublist, in input order, of the hospitals whose
\* address matches the text
MatchingInOrder(returned, hospitals, user_query) ==
  LET M == {i \in DOMAIN hospitals :
              match_address(Get(hospitals[i], "address", <<>>), user_query)}
  IN /\ Len(returned) = Cardinality(M)
     /\ \A j \in DOMAIN returned :
          \E i \in M : returned[j] = hospitals[i] /\ Cardinality({k \in M : k < i}) = j - 1

\* on every list with a text that names a location, a failed oracle call
\* makes the filter return the matching hospitals in input order
FallbackIsMatchFilter ==
  \A x \in {y \in FilterInputs : ~y.oracle.ok /\ y.hospitals # <<>>
                                   /\ y.user_query \in LocationQueries} :
    MatchingInOrder(filter_hospitals_by_location(x.user_query, x.hospitals, x.oracle),
                    x.hospitals, x.user_query)

\* C23: when the oracle call of the location filter fails, the filter returns
\* the hospitals whose address matches the text, in input order, and the
\* turn still shows a result: process_ai_query lists the matching hospitals
\* or, when none matches, the full list after a notice, and sets
\* selecting_hospital; a refinement in which none matches sends the
\* not-found message and leaves the context and the state as they were.
C23_FilterFailureFallsBack ==
  [][/\ FallbackIsMatchFilter
     /\ (last'.path.ret = "fallback" /\ last'.outcome # "error") =>
          LET hs == get_hospitals(db, Get(data', "specialty_id", None))
              fb == SelectSeq(hs, LAMBDA h : match_address(Get(h, "address", <<>>),
                                                           last'.path.query))
          IN /\ last'.handler = "process_ai_query" =>
                  /\ fsm' = "selecting_hospital"
                  /\ shown'.kind = "ai_hospitals"
                  /\ shown'.ids = Ids(IF fb = <<>> THEN hs ELSE fb)
                  /\ data'["filtered_hospitals"] = shown'.ids
                  /\ fb = <<>> <=> "no_exact_match" \in SeqToSet(sent')
             /\ last'.handler = "handle_text_during_hospital_selection" =>
                  IF fb = <<>>
                    THEN "not_found" \in SeqToSet(sent') /\ data' = data /\ fsm' = fsm
                    ELSE shown'.ids = Ids(fb)]_vars

\* a process_ai_query turn whose filter call failed: the notice and the full
\* list of the specialty
C23_Witness ==
  /\ last.handler = "process_ai_query"
  /\ last.path.ret = "fallback"
  /\ "no_exact_match" \in SeqToSet(sent)
  /\ fsm = "selecting_hospital"
  /\ Len(shown.ids) = MaxHosp
  /\ ~data["filter_applied"]

\* C30: the conversation_history of a session never holds more than
\* HistoryWindow (4) entries, however many AI queries the session has seen.
C30_HistoryBounded ==
  Len(Get(data, "conversation_history", <<>>)) <= HistoryWindow

\* C28 as stated: in every reachable state /start is accepted; it leaves the
\* session with no FSM state and no data; and from there the
\* specialty-selection step can be entered.
C28_StartLeadsToSpecialties ==
  /\ ENABLED cmd_start
  /\ last.handler = "cmd_start" => fsm = "none" /\ data = EmptyDict
  /\ (fsm = "none" /\ data = EmptyDict) =>
        ENABLED (start_search /\ fsm' = "selecting_specialty")

\* C28: in every reachable state /start is accepted; it leaves the session
\* with no FSM state and no data; and from there the specialty-selection
\* step can be entered whenever the catalog holds a specialty.
C28_StartLeadsToSpecialtiesIfAny ==
  /\ ENABLED cmd_start
  /\ last.handler = "cmd_start" => fsm = "none" /\ data = EmptyDict
  /\ (fsm = "none" /\ data = EmptyDict /\ get_specialties(db) # <<>>) =>
        ENABLED (start_search /\ fsm' = "selecting_specialty")

\* /start sent in a session that held every field of the context, over a
\* catalog with specialties
C28_Witness ==
  /\ last.handler = "cmd_start"
  /\ ContextKeys \subseteq last.dropped
  /\ fsm = "none" /\ data = EmptyDict
  /\ get_specialties(db) # <<>>

\* C21: when /start, 'start' or 'new_search' is handled while a
\* process_ai_query or refinement turn of the session is suspended, the turn,
\* once it has finished, has left no specialty_id, location_info,
\* filtered_hospitals, filter_applied or original_count in the context and
\* has not set selecting_hospital.
C21_StaleTurnWritesNothing ==
  [][(/\ task.pc # "none"
      /\ task'.pc = "none"
      /\ last.handler \in {"cmd_start", "callback_start", "new_search"})
       => /\ \A k \in {"specialty_id", "location_info", "filtered_hospitals",
                        "filter_applied", "original_count"} : ~HasKey(data', k)
          /\ ~(fsm' = "selecting_hospital" /\ fsm # "selecting_hospital")]_vars

\* C24: a bot started without oracle credentials comes up and serves: its
\* startup raises no failure, so that the updates the user sends ('ai_search'
\* and free text, which no router handles, and the deterministic flow up to
\* the doctor card) are fetched and handled.
C24_ServesWithoutOracle ==
  ~task.credentials => task.pc # "crashed"

C32_BackToDoctorsKeepsAiBack ==
  (/\ last.handler = "back_to_doctors"
   /\ last.outcome = "listed"
   /\ Get(data, "using_ai_search", FALSE)
   /\ HasKey(data, "doctor_id")
   /\ Get(data, "hospital_id", None) \in SeqToSet(Get(data, "filtered_hospitals", <<>>)))
    => BackCallback(shown.kind) = "back_to_ai_hospitals"

\* C33: in every reachable state that holds a specialty_id, and for every
\* hospital button, select_hospital and select_ai_hospital store the selected
\* id in hospital_id and set selecting_doctor when the catalog returns a
\* doctor for the hospital and the specialty; when it returns none or the
\* lookup fails, the FSM state and every field of the data, an earlier
\* hospital_id included, stay as they were.
C33_HospitalStoredOnlyWithDoctors ==
  Get(data, "specialty_id", None) # None =>
    \A hospital_id \in ButtonIds, fail \in BOOLEAN :
      \A r \in {SelectHospital(hospital_id, fail), SelectAiHospital(hospital_id, fail)} :
        IF ~fail /\ get_doctors(db, hospital_id, data["specialty_id"]) # {}
          THEN /\ r.fsm = "selecting_doctor"
               /\ r.data = Update(data, [hospital_id |-> hospital_id])
               /\ r.data["hospital_id"] = hospital_id
          ELSE /\ r.fsm = fsm
               /\ r.data = data

\* a hospital without a doctor of the specialty was pressed in a session
\* that holds the hospital of an earlier selection
C33_Witness ==
  /\ last.handler \in {"select_hospital", "select_ai_hospital"}
  /\ last.outcome = "no_doctors"
  /\ Get(data, "specialty_id", None) # None
  /\ Get(data, "hospital_id", None) \in ButtonIds
  /\ fsm = "selecting_doctor"

\* C34: whenever filter_applied is true in the session data, the stored
\* filtered_hospitals is strictly shorter than original_count, after
\* process_ai_query and after every refinement.
C34_AppliedFilterIsNarrower ==
  Get(data, "filter_applied", FALSE) =>
    Len(data["filtered_hospitals"]) < data["original_count"]

\* C35: for any history of the session, search_doctors sends the oracle the
\* system prompt, then the last HistoryWindow (4) entries of the history, or
\* all of them when there are fewer, in their order and with their roles,
\* then the text of the turn as the last message; no older entry is sent.
C35_OracleSeesLastFour ==
  [][(last'.handler = "process_ai_query" /\ last'.turn.ai) =>
       LET h == Get(data, "conversation_history", <<>>)
           m == last'.turn.messages
           k == IF Len(h) > HistoryWindow THEN HistoryWindow ELSE Len(h)
       IN /\ Len(m) = k + 2
          /\ m[1].role = "system"
          /\ \A i \in 1..k : m[1 + i] = h[Len(h) - k + i]
          /\ m[Len(m)] = data'["conversation_history"][Len(h) + 1]
          /\ m[Len(m)].role = "user"]_vars

\* a turn of a session whose history held more than HistoryWindow entries
\* when the text arrived
C35_Witness ==
  /\ last.handler = "process_ai_query"
  /\ last.turn.ai
  /\ Len(last.turn.messages) = HistoryWindow + 2
  /\ Len(data["conversation_history"]) > HistoryWindow + 2
  /\ \E i, j \in 2..(HistoryWindow + 1) :
       last.turn.messages[i].role = "user" /\ last.turn.messages[j].role = "assistant"

\* C36: with the events of a session handled one at a time, in every
\* reachable state selecting_hospital implies that specialty_id is set, and
\* selecting_doctor implies that specialty_id and hospital_id are set.
C36_StateHasItsContext ==
  /\ fsm = "selecting_hospital" => Get(data, "specialty_id", None) # None
  /\ fsm = "selecting_doctor" =>
       /\ Get(data, "specialty_id", None) # None
       /\ Get(data, "hospital_id", None) # None

\* the doctor list rendered again by back_to_doctors, in a session of AI
\* origin that has been at a doctor card
C36_Witness ==
  /\ fsm = "selecting_doctor"
  /\ last.handler = "back_to_doctors"
  /\ last.outcome = "listed"
  /\ HasKey(data, "doctor_id")
  /\ Get(data, "using_ai_search", FALSE)

\* C37: in every reachable state in which specialty_id and specialty_name
\* are both set, specialty_name is the name the catalog has for specialty_id.
C37_NameMatchesSpecialty ==
  (Get(data, "specialty_id", None) # None /\ HasKey(data, "specialty_name")) =>
     /\ \E j \in DOMAIN get_specialties(db) : get_specialties(db)[j].id = data["specialty_id"]
     /\ data["specialty_name"] = NameOf(get_specialties(db), data["specialty_id"])

\* C38: in every reachable state in which filtered_hospitals is not empty,
\* every id in it is the id of a hospital with a placement of the specialty
\* stored in specialty_id.
C38_FilteredBelongToSpecialty ==
  Get(data, "filtered_hospitals", <<>>) # <<>> =>
    \A i \in DOMAIN data["filtered_hospitals"] :
      \E p \in db.placements :
        /\ p.hospital = data["filtered_hospitals"][i]
        /\ p.specialty = Get(data, "specialty_id", None)

\* C39: a process_review turn that stored the review and confirmed it leaves
\* no FSM state and the data as it was, doctor_id and hospital_id of the review
\* included; a back_to_doctor that follows does not report lost hospital data
\* and, the doctor working at that hospital, can render the card of that
\* doctor; process_review changes the data only on its failure and
\* missing-data paths, which clear it.
C39_SavedReviewKeepsContext ==
  [][/\ (last'.handler = "process_review" /\ last'.outcome = "saved") =>
          /\ fsm' = "none"
          /\ data' = data
          /\ Get(data', "doctor_id", None) = last'.review.doctor_id
          /\ Get(data', "hospital_id", None) = last'.review.hospital_id
          /\ last'.review.doctor_id # None /\ last'.review.hospital_id # None
     /\ (last'.handler = "process_review" /\ data' # data) =>
          /\ last'.outcome \in {"error", "reply_failed", "lost_context"}
          /\ data' = EmptyDict
     /\ (last.handler = "process_review" /\ last.outcome = "saved") =>
          /\ last'.handler = "back_to_doctor" =>
               /\ last'.outcome \in {"card", "error"}
               /\ last'.outcome = "card" => shown'.ids[2] = data["hospital_id"]
          /\ get_doctor(db, data["doctor_id"], data["hospital_id"]) =>
               ENABLED (/\ back_to_doctor
                        /\ last'.outcome = "card"
                        /\ shown'.ids = <<data["doctor_id"], data["hospital_id"]>>)]_vars

\* a review stored for a doctor of the hospital held by a session that also
\* holds the specialty of its search
C39_Witness ==
  /\ last.handler = "process_review"
  /\ last.outcome = "saved"
  /\ last.review.created
  /\ fsm = "none"
  /\ HasKey(data, "specialty_id")
  /\ get_doctor(db, data["doctor_id"], data["hospital_id"])
  /\ shown = [kind |-> "review_success", ids |-> <<data["doctor_id"]>>, banner |-> "none"]

\* C40: every review that create_review stored for a doctor of the catalog
\* carries a doctor_id and a hospital_id for which the catalog has a
\* placement: the doctor works at that hospital.
C40_ReviewedPairIsPlaced ==
  (/\ last.handler = "process_review"
   /\ last.review.created
   /\ \E p \in db.placements : p.doctor = last.review.doctor_id)
    => get_doctor(db, last.review.doctor_id, last.review.hospital_id)

====
